---- MODULE Spec2Model ----
(***************************************************************************)
(* Verification model of the Yudu MUD battle engine.                       *)
(*                                                                         *)
(*   Spec         processTurn (game/battleManager.ts) driven from the      *)
(*                state startBattle builds, with the JSON round trip the   *)
(*                command route performs between two turns.                *)
(*                                                                         *)
(* Conventions.  participants[0] / participants[1] of the source are       *)
(* participants[1] / participants[2] here (TLA+ sequences start at 1).     *)
(* Type and move names are written in ASCII: "Normal" is the chart key     *)
(* 一般, "Electric" 电, "Ground" 地面, "Ghost" 幽灵; the move "ThunderWave"  *)
(* is 电磁波, "Thunderbolt" is 十万伏特, "Tackle" is 撞击.                    *)
(* Fractions are kept exact with integer numerators: a type multiplier is  *)
(* carried as a multiple of 1/4, the critical and same-type factors as     *)
(* multiples of 1/2, the random roll in 1/1000.                            *)
(***************************************************************************)
EXTENDS Integers, Sequences, FiniteSets, TLC

VARIABLES
    battle,      \* the BattleState the caller holds (the value processTurn returned last)
    call,        \* record of the last processTurn call (what went in, what came out)
    gameStates,  \* stateManager.ts gameStates[playerId], the stored Player object
    cachedItems, \* gameData.ts cachedItems is loaded
    req,         \* the command requests of one session, each with its position
    acked,       \* per item, the drops the server has acknowledged to the client
    cachedMoves, \* gameData.ts cachedMoves: <<>> for null, or <<the names the Map holds>>
    activeSessions, \* sessionManager activeSessions, keyed by session id
    now          \* the server clock in milliseconds

battleVars == <<battle, call>>
sessionVars == <<gameStates, cachedItems, req, acked>>
serverVars == <<cachedMoves, activeSessions, now>>
vars == <<battle, call, gameStates, cachedItems, req, acked,
          cachedMoves, activeSessions, now>>

\* number of processTurn calls explored on one battle
MaxCalls == 2
\* number of command requests sent on one session
MaxRequests == 3

Max(a, b) == IF a >= b THEN a ELSE b

\* the value of a one-element set
The(S) == CHOOSE x \in S : TRUE

----------------------------------------------------------------------------
(* Reference data                                                          *)

\* typeUtils.ts TypeChart, 一般 / 电 / 地面 rows against the defending types
\* used here; the value is twice the chart's multiplier (0, 1, 2, 4).
\* A pairing that is not in the chart is "missing".
TypeChart2(attackType, defenderType) ==
    CASE attackType = "Normal" ->
            (CASE defenderType = "Ghost" -> 0
               [] defenderType \in {"Normal", "Electric", "Ground"} -> 2
               [] OTHER -> -1)
      [] attackType = "Electric" ->
            (CASE defenderType = "Ground" -> 0
               [] defenderType = "Electric" -> 1
               [] defenderType \in {"Normal", "Ghost"} -> 2
               [] OTHER -> -1)
      [] attackType = "Ground" ->
            (CASE defenderType = "Electric" -> 4
               [] defenderType \in {"Normal", "Ground", "Ghost"} -> 2
               [] OTHER -> -1)
      [] OTHER -> -1

\* getTypeEffectiveness: product over the defending types, a missing pairing
\* counts as 1, no defending type gives 1.  Result in quarters (4 = x1) for
\* creatures of at most two types.
RECURSIVE EffProd2(_, _)
EffProd2(attackType, defenderTypes) ==
    IF defenderTypes = <<>> THEN 1
    ELSE LET v == TypeChart2(attackType, Head(defenderTypes))
         IN  (IF v = -1 THEN 2 ELSE v) * EffProd2(attackType, Tail(defenderTypes))

\* getTypeEffectiveness looking at the first defending type only
getTypeEffectiveness_FirstOnly(attackType, defenderTypes) ==
    IF Len(defenderTypes) = 0 THEN 4
    ELSE 2 * EffProd2(attackType, <<Head(defenderTypes)>>)

getTypeEffectiveness(attackType, defenderTypes) ==
    IF Len(defenderTypes) = 0 THEN 4
    ELSE IF Len(defenderTypes) = 1 THEN 2 * EffProd2(attackType, defenderTypes)
    ELSE EffProd2(attackType, defenderTypes)

\* Move reference data (name, type, category, power; power 0 stands for null)
MoveData(name) ==
    CASE name = "Tackle"      -> [type |-> "Normal",   category |-> "Physical", power |-> 40]
      [] name = "Thunderbolt" -> [type |-> "Electric", category |-> "Special",  power |-> 90]
      [] name = "ThunderWave" -> [type |-> "Electric", category |-> "Status",   power |-> 0]
      [] OTHER                -> [type |-> "Normal",   category |-> "Status",   power |-> 0]

\* StatusSpeedModifier, doubled: PAR 0.5 -> 1, default 1.0 -> 2
StatusSpeedModifier2(status) == IF status = "PAR" THEN 1 ELSE 2

----------------------------------------------------------------------------
(* Creatures and participants                                              *)

Mon(id, types, level, hp, maxHp, status, atk, def, spd, moves) ==
    [instanceId |-> id, types |-> types, level |-> level,
     currentHp |-> hp, maxHp |-> maxHp, statusCondition |-> status,
     calculatedStats |-> [hp |-> maxHp, attack |-> atk, defense |-> def,
                          spAttack |-> atk, spDefense |-> def, speed |-> spd],
     stats |-> [attack |-> atk, defense |-> def, specialAttack |-> atk,
                specialDefense |-> def, speed |-> spd],
     moves |-> moves]

Mv(name, pp) == [name |-> name, pp |-> pp]

\* A participant keeps its party and its activePokemon.  activeRef is the
\* party index of the object activePokemon refers to, 0 when activePokemon is
\* an object of its own (a state that was rebuilt from JSON).
WriteActive(p, c) ==
    [p EXCEPT !.activePokemon = c,
              !.party = IF p.activeRef > 0
                        THEN [p.party EXCEPT ![p.activeRef] = c]
                        ELSE p.party]

AllFainted(p) == \A i \in 1..Len(p.party) : p.party[i].currentHp <= 0

----------------------------------------------------------------------------
(* calculateDamage (battleManager.ts)                                      *)

\* values of Math.random() * 0.15 + 0.85, in thousandths
Rolls == {850, 999}

\* calculateDamage without the constant 2 of the base damage
calculateDamage_NoConstantTerm(attacker, defender, move, isCritical, roll) ==
    LET md == MoveData(move.name)
        level == attacker.level
        power == md.power
        atk0 == IF md.category = "Special" THEN attacker.calculatedStats.spAttack
                                           ELSE attacker.calculatedStats.attack
        defenseStat == IF md.category = "Special" THEN defender.calculatedStats.spDefense
                                                  ELSE defender.calculatedStats.defense
        attackStat == IF md.category = "Physical" /\ attacker.statusCondition = "BRN"
                      THEN atk0 \div 2 ELSE atk0
        \* floor((((2*level/5 + 2) * power * attackStat / defenseStat) / 50) + 2)
        base == (((2 * level + 10) * power * attackStat) \div (250 * defenseStat))
        crit2 == IF isCritical THEN 3 ELSE 2
        stab2 == IF \E i \in 1..Len(attacker.types) : attacker.types[i] = md.type
                 THEN 3 ELSE 2
        eff4 == getTypeEffectiveness(md.type, defender.types)
        msg == IF eff4 > 4 THEN "super"
               ELSE IF eff4 < 4 /\ eff4 > 0 THEN "notvery"
               ELSE IF eff4 = 0 THEN "noeffect" ELSE "none"
        raw == (base * crit2 * stab2 * eff4 * roll) \div 16000
        d1 == IF eff4 > 0 /\ raw < 1 THEN 1 ELSE raw
        d2 == IF eff4 = 0 THEN 0 ELSE d1
    IN  IF power <= 0
        THEN [damage |-> 0, effectivenessMessage |-> "none", isCritical |-> FALSE]
        ELSE [damage |-> d2, effectivenessMessage |-> msg, isCritical |-> isCritical]

\* isCritical is the draw Math.random() < 1/24; roll is in thousandths.
\* effectivenessMessage: "none" (null), "super", "notvery", "noeffect".
calculateDamage(attacker, defender, move, isCritical, roll) ==
    LET md == MoveData(move.name)
        level == attacker.level
        power == md.power
        atk0 == IF md.category = "Special" THEN attacker.calculatedStats.spAttack
                                           ELSE attacker.calculatedStats.attack
        defenseStat == IF md.category = "Special" THEN defender.calculatedStats.spDefense
                                                  ELSE defender.calculatedStats.defense
        attackStat == IF md.category = "Physical" /\ attacker.statusCondition = "BRN"
                      THEN atk0 \div 2 ELSE atk0
        \* floor((((2*level/5 + 2) * power * attackStat / defenseStat) / 50) + 2)
        base == (((2 * level + 10) * power * attackStat) \div (250 * defenseStat)) + 2
        crit2 == IF isCritical THEN 3 ELSE 2
        stab2 == IF \E i \in 1..Len(attacker.types) : attacker.types[i] = md.type
                 THEN 3 ELSE 2
        eff4 == getTypeEffectiveness(md.type, defender.types)
        msg == IF eff4 > 4 THEN "super"
               ELSE IF eff4 < 4 /\ eff4 > 0 THEN "notvery"
               ELSE IF eff4 = 0 THEN "noeffect" ELSE "none"
        raw == (base * crit2 * stab2 * eff4 * roll) \div 16000
        d1 == IF eff4 > 0 /\ raw < 1 THEN 1 ELSE raw
        d2 == IF eff4 = 0 THEN 0 ELSE d1
    IN  IF power <= 0
        THEN [damage |-> 0, effectivenessMessage |-> "none", isCritical |-> FALSE]
        ELSE [damage |-> d2, effectivenessMessage |-> msg, isCritical |-> isCritical]

----------------------------------------------------------------------------
(* battleCalculations: calculateDamage, calculateTypeEffectiveness         *)

\* the typeEffectiveness table inside calculateTypeEffectiveness, rows Normal,
\* Electric, Ground against the defending types used here; twice the table's
\* multiplier, -1 for a pairing the table does not list
typeEffectiveness2(moveType, defenderType) ==
    CASE moveType = "Normal" /\ defenderType = "Ghost"      -> 0
      [] moveType = "Electric" /\ defenderType = "Electric" -> 1
      [] moveType = "Electric" /\ defenderType = "Ground"   -> 0
      [] moveType = "Ground" /\ defenderType = "Electric"   -> 4
      [] OTHER -> -1

\* "typeEffectiveness[moveType]?.[defenderType] || 1.0": an unlisted pairing
\* and a listed 0 both count as 1.0
RECURSIVE TotalEffectiveness2(_, _)
TotalEffectiveness2(moveType, defenderTypes) ==
    IF defenderTypes = <<>> THEN 1
    ELSE LET v == typeEffectiveness2(moveType, Head(defenderTypes))
         IN  (IF v <= 0 THEN 2 ELSE v) * TotalEffectiveness2(moveType, Tail(defenderTypes))

\* floor((p / q) * roll / 1000), computed without a product beyond 32 bits
FloorOfThousandths(p, q, roll) ==
    (((p \div q) * roll) + (((p % q) * roll) \div q)) \div 1000

\* calculateTypeEffectiveness, in quarters, for creatures of one or two types
calculateTypeEffectiveness(moveType, defenderTypes) ==
    IF Len(defenderTypes) = 1 THEN 2 * TotalEffectiveness2(moveType, defenderTypes)
    ELSE TotalEffectiveness2(moveType, defenderTypes)

\* battleCalculations.calculateDamage(attacker, defender, move) for a Move
\* object; isCritical is the draw Math.random() < 1/16, roll the random
\* factor in thousandths.  effectiveness is in quarters.
battleCalculationsDamage(attacker, defender, move, isCritical, roll) ==
    LET md == MoveData(move.name)
        power == IF md.power = 0 THEN 50 ELSE md.power
        attackStat == IF md.category = "Physical" THEN attacker.stats.attack
                      ELSE attacker.stats.specialAttack
        defenseStat == IF md.category = "Physical" THEN defender.stats.defense
                       ELSE defender.stats.specialDefense
        crit2 == IF isCritical THEN 3 ELSE 2
        eff4 == calculateTypeEffectiveness(md.type, defender.types)
        \* floor((((2*level/5 + 2) * power * (attack/defense)) / 50 + 2)
        \*        * effectiveness * criticalMultiplier * randomFactor)
        \* the product before the random factor is p / q
        p == (((2 * attacker.level + 10) * power * attackStat) + 500 * defenseStat)
                * eff4 * crit2
        q == 2000 * defenseStat
        raw == FloorOfThousandths(p, q, roll)
    IN  IF md.category = "Status"
        THEN [damage |-> 0, effectiveness |-> 4, isCritical |-> FALSE]
        ELSE [damage |-> Max(1, raw), effectiveness |-> eff4, isCritical |-> isCritical]

----------------------------------------------------------------------------
(* processTurn (battleManager.ts)                                          *)

\* index of the move named moveId in the creature's move list, 0 when absent
FindMove(mon, moveId) ==
    IF \E i \in 1..Len(mon.moves) : mon.moves[i].name = moveId
    THEN CHOOSE i \in 1..Len(mon.moves) :
            /\ mon.moves[i].name = moveId
            /\ \A j \in 1..(i - 1) : mon.moves[j].name # moveId
    ELSE 0

\* ActionOrder with a strict comparison: a tie lets the opponent act first
ActionOrder_TieToOpponent(st) ==
    LET pp == st.participants[1].activePokemon
        op == st.participants[2].activePokemon
        playerEffectiveSpeed2 == pp.calculatedStats.speed * StatusSpeedModifier2(pp.statusCondition)
        opponentEffectiveSpeed2 == op.calculatedStats.speed * StatusSpeedModifier2(op.statusCondition)
    IN  IF playerEffectiveSpeed2 > opponentEffectiveSpeed2 THEN <<1, 2>> ELSE <<2, 1>>

\* actionsInOrder: the participant indices in the order the loop visits them
ActionOrder(st) ==
    LET pp == st.participants[1].activePokemon
        op == st.participants[2].activePokemon
        playerEffectiveSpeed2 == pp.calculatedStats.speed * StatusSpeedModifier2(pp.statusCondition)
        opponentEffectiveSpeed2 == op.calculatedStats.speed * StatusSpeedModifier2(op.statusCondition)
    IN  IF playerEffectiveSpeed2 >= opponentEffectiveSpeed2 THEN <<1, 2>> ELSE <<2, 1>>

\* FightAction reduced to its pp bookkeeping, without the check of the
\* remaining pp
FightAction_NoPpCheck(st, idx, action, d) ==
    LET actor == st.participants[idx]
        actorPokemon == actor.activePokemon
        mi == FindMove(actorPokemon, action.moveId)
    IN  IF mi = 0 THEN st
        ELSE [st EXCEPT !.participants[idx] =
                           WriteActive(actor, [actorPokemon EXCEPT !.moves[mi].pp = @ - 1]),
                        !.log = Append(@, "used")]

\* case 'FIGHT' of the loop body, for an actor that passed the checks
FightAction(st, idx, action, d) ==
    LET actor == st.participants[idx]
        target == st.participants[3 - idx]
        actorPokemon == actor.activePokemon
        targetPokemon == target.activePokemon
        mi == FindMove(actorPokemon, action.moveId)
    IN  IF mi = 0 THEN st
        ELSE IF actorPokemon.moves[mi].pp <= 0 THEN st
        ELSE
        LET move == actorPokemon.moves[mi]
            actor1 == [actorPokemon EXCEPT !.moves[mi].pp = @ - 1]
            res == calculateDamage(actor1, targetPokemon, move, d.crit, d.roll)
            log1 == Append(st.log, "used")
            hp1 == IF res.damage > 0 THEN Max(0, targetPokemon.currentHp - res.damage)
                   ELSE targetPokemon.currentHp
            log2 == IF res.damage > 0 THEN Append(log1, "damage")
                    ELSE IF res.effectivenessMessage = "noeffect" THEN log1
                    ELSE IF MoveData(move.name).power > 0 THEN Append(log1, "no effect")
                    ELSE log1
            paralyze == /\ res.effectivenessMessage # "noeffect"
                        /\ targetPokemon.statusCondition = "none"
                        /\ \/ move.name = "ThunderWave"
                           \/ move.name = "Thunderbolt" /\ d.sec
            log3 == IF paralyze THEN Append(log2, "paralyzed") ELSE log2
            target1 == [targetPokemon EXCEPT
                          !.currentHp = hp1,
                          !.statusCondition = IF paralyze THEN "PAR" ELSE @]
            log4 == IF hp1 <= 0 THEN Append(log3, "fainted") ELSE log3
        IN  [st EXCEPT !.participants =
                          IF idx = 1
                          THEN <<WriteActive(actor, actor1), WriteActive(target, target1)>>
                          ELSE <<WriteActive(target, target1), WriteActive(actor, actor1)>>,
                       !.log = log4]

\* ActorStep without the check that the actor has fainted
ActorStep_NoFaintCheck(st, idx, action, d) ==
    LET actorPokemon == st.participants[idx].activePokemon
    IN  IF st.status # "WAITING_FOR_INPUT" /\ st.status # "PROCESSING" THEN st
        ELSE
        LET st1 == [st EXCEPT !.status = "PROCESSING"]
        IN  IF actorPokemon.statusCondition = "PAR" /\ d.par
            THEN [st1 EXCEPT !.log = Append(@, "fully paralyzed")]
            ELSE CASE action.type = "FIGHT"  -> FightAction(st1, idx, action, d)
                   [] action.type = "ITEM"   -> st1
                   [] action.type = "SWITCH" -> st1
                   [] action.type = "RUN"    -> st1
                   [] OTHER -> [st1 EXCEPT !.log = Append(@, "unknown action")]

\* one iteration of the loop over actionsInOrder
ActorStep(st, idx, action, d) ==
    LET actorPokemon == st.participants[idx].activePokemon
    IN  IF actorPokemon.currentHp <= 0 /\ action.type # "SWITCH" THEN st
        ELSE IF st.status # "WAITING_FOR_INPUT" /\ st.status # "PROCESSING" THEN st
        ELSE
        LET st1 == [st EXCEPT !.status = "PROCESSING"]
        IN  IF actorPokemon.statusCondition = "PAR" /\ d.par
            THEN [st1 EXCEPT !.log = Append(@, "fully paralyzed")]
            ELSE CASE action.type = "FIGHT"  -> FightAction(st1, idx, action, d)
                   [] action.type = "ITEM"   -> st1
                   [] action.type = "SWITCH" -> st1
                   [] action.type = "RUN"    -> st1
                   [] OTHER -> [st1 EXCEPT !.log = Append(@, "unknown action")]

\* end-of-turn body for one participant: poison / burn damage on its active
\* creature and the win/loss re-check.  shouldEnd is battleShouldEnd.
StatusDamage(st, i) ==
    LET participant == st.participants[i]
        pokemon == participant.activePokemon
        isPsn == pokemon.statusCondition = "PSN"
        isBrn == pokemon.statusCondition = "BRN"
        dmg == IF isPsn THEN Max(1, pokemon.maxHp \div 8)
               ELSE Max(1, pokemon.maxHp \div 16)
    IN  IF pokemon.currentHp > 0 /\ (isPsn \/ isBrn)
        THEN LET hp1 == Max(0, pokemon.currentHp - dmg)
                 faintedFromStatus == hp1 <= 0
                 log1 == Append(st.log, IF isPsn THEN "hurt by poison" ELSE "hurt by burn")
                 log2 == IF faintedFromStatus THEN Append(log1, "fainted") ELSE log1
                 parts1 == [st.participants EXCEPT
                              ![i] = WriteActive(participant, [pokemon EXCEPT !.currentHp = hp1])]
                 playerAllFainted == AllFainted(parts1[1])
                 opponentAllFainted == AllFainted(parts1[2])
                 st1 == [st EXCEPT !.participants = parts1, !.log = log2]
             IN  IF faintedFromStatus /\ opponentAllFainted
                 THEN [st |-> [st1 EXCEPT !.status = "PLAYER_WIN",
                                          !.log = Append(@, "defeated")],
                       shouldEnd |-> TRUE]
                 ELSE IF faintedFromStatus /\ playerAllFainted
                 THEN [st |-> [st1 EXCEPT !.status = "OPPONENT_WIN",
                                          !.log = Append(@, "defeated")],
                       shouldEnd |-> TRUE]
                 ELSE [st |-> st1, shouldEnd |-> FALSE]
        ELSE [st |-> st, shouldEnd |-> FALSE]

\* FinalStatusUpdate without the reset of the transient status
FinalStatusUpdate_NoReset(st, battleShouldEnd) == st

\* "Final status update if battle didn't end from status damage"
FinalStatusUpdate(st, battleShouldEnd) ==
    IF ~battleShouldEnd /\ st.status = "PROCESSING"
    THEN [st EXCEPT !.status = "WAITING_FOR_INPUT", !.log = Append(@, "waiting")]
    ELSE st

\* the loop over the participants at the end of the turn, left at the first
\* participant whose fainting ends the battle
StatusDamageLoop(st) ==
    The({ IF r1.shouldEnd THEN r1 ELSE StatusDamage(r1.st, 2)
          : r1 \in {StatusDamage(st, 1)} })

\* end-of-turn effects, applied only when the battle did not end mid-turn
EndOfTurn(st) ==
    IF st.status = "PROCESSING" \/ st.status = "WAITING_FOR_INPUT"
    THEN The({ FinalStatusUpdate(r.st, r.shouldEnd)
               : r \in {StatusDamageLoop([st EXCEPT !.log = Append(@, "end of turn")])} })
    ELSE st

\* "nextState.log.push(`--- Turn ...`); nextState.turn++"
BeginTurn(st) == [st EXCEPT !.log = Append(@, "turn header"), !.turn = @ + 1]

\* the loop over actionsInOrder, with its break once the battle has ended
ActionLoop(st0, order, actions, draws) ==
    The({ IF st1.status # "PROCESSING" /\ st1.status # "WAITING_FOR_INPUT"
          THEN st1
          ELSE ActorStep(st1, order[2], actions[order[2]], draws[order[2]])
          : st1 \in {ActorStep(st0, order[1], actions[order[1]], draws[order[1]])} })

\* processTurn(currentBattleState, playerAction, opponentAction).  draws[i] are
\* the Math.random() outcomes used while participant i acts.
\* Returns the value the function returns (ret) and the argument object as it
\* is once the function has returned (input): nextState is a shallow copy, so
\* turn and status of the argument keep their values while participants and
\* log are the very objects nextState works on.  mid is nextState after the
\* first iteration of the action loop, loopEnd is nextState when the loop is
\* left.
processTurn(currentBattleState, playerAction, opponentAction, draws) ==
    The({ The({ [ret |-> ret,
                 input |-> [currentBattleState EXCEPT !.participants = ret.participants,
                                                      !.log = ret.log],
                 order |-> ActionOrder(currentBattleState),
                 mid |-> mid,
                 loopEnd |-> loopEnd]
                : ret \in {EndOfTurn(loopEnd)} })
          : mid \in { ActorStep(BeginTurn(currentBattleState),
                                ActionOrder(currentBattleState)[1],
                                <<playerAction, opponentAction>>[ActionOrder(currentBattleState)[1]],
                                draws[ActionOrder(currentBattleState)[1]]) },
            loopEnd \in { ActionLoop(BeginTurn(currentBattleState),
                                     ActionOrder(currentBattleState),
                                     <<playerAction, opponentAction>>,
                                     draws) } })

----------------------------------------------------------------------------
(* startBattle (battleManager.ts) and the battles explored                 *)

\* index of the first party member with currentHp > 0, 0 when there is none
FirstAlive(party) ==
    IF \E i \in 1..Len(party) : party[i].currentHp > 0
    THEN CHOOSE i \in 1..Len(party) :
            /\ party[i].currentHp > 0
            /\ \A j \in 1..(i - 1) : party[j].currentHp <= 0
    ELSE 0

\* startBattle throws for an empty party and for a party without a creature
\* that has HP left; CanStartBattle is the case in which it returns.
CanStartBattle(playerParty) == Len(playerParty) > 0 /\ FirstAlive(playerParty) > 0

startBattle(playerParty, opponentPokemon) ==
    [participants |->
        << [name |-> "player", party |-> playerParty,
            activePokemon |-> playerParty[FirstAlive(playerParty)],
            activeRef |-> FirstAlive(playerParty),
            availableActions |-> {"FIGHT", "ITEM", "SWITCH", "RUN"}],
           [name |-> "wild", party |-> <<opponentPokemon>>,
            activePokemon |-> opponentPokemon,
            activeRef |-> 1,
            availableActions |-> {"FIGHT"}] >>,
     turn |-> 1,
     log |-> <<"appeared", "sent out", "what will you do">>,
     status |-> "WAITING_FOR_INPUT"]

\* Creatures the battles are built from.
MonA(hp, status) ==
    Mon("A", <<"Normal">>, 5, hp, 12, status, 10, 10, 10,
        <<Mv("Tackle", 1), Mv("ThunderWave", 1)>>)
MonB == Mon("B", <<"Electric">>, 5, 12, 12, "none", 10, 10, 12, <<Mv("Tackle", 2)>>)
MonW(hp, status, spd) ==
    Mon("W", <<"Normal">>, 5, hp, 12, status, 10, 10, spd, <<Mv("Tackle", 2)>>)

PlayerParties ==
    { <<MonA(12, "none")>>, <<MonA(12, "PAR")>>, <<MonA(3, "none"), MonB>> }

WildPokemon ==
    { MonW(hp, c[1], c[2]) : hp \in {1, 12},
                             c \in {<<"none", 5>>, <<"none", 20>>, <<"PSN", 20>>, <<"BRN", 5>>} }

\* BattleAction values (interfaces/battle.ts); unused fields are "" and 0
Fight(moveId) == [type |-> "FIGHT", moveId |-> moveId, switchToPokemonIndex |-> 0]
Switch(i) == [type |-> "SWITCH", moveId |-> "", switchToPokemonIndex |-> i]
Run == [type |-> "RUN", moveId |-> "", switchToPokemonIndex |-> 0]
Item == [type |-> "ITEM", moveId |-> "", switchToPokemonIndex |-> 0]
NoAction == [type |-> "NONE", moveId |-> "", switchToPokemonIndex |-> 0]

\* "Surf" is a name no creature here knows
PlayerActions(b) ==
    { Fight(m) : m \in {"Tackle", "ThunderWave", "Surf"} }
    \cup { Switch(i) : i \in 1..Len(b.participants[1].party) }
    \cup { Run, Item }

\* the command route always makes the opponent use its first move
OpponentActions(b) ==
    { Fight(b.participants[2].activePokemon.moves[1].name) }

\* Math.random() outcomes one actor consumes; draws that the actor cannot
\* reach are fixed to one value
DrawsFor(b, idx, action, otherAction) ==
    LET mon == b.participants[idx].activePokemon
        fights == action.type = "FIGHT" /\ FindMove(mon, action.moveId) > 0
        hits == fights /\ MoveData(action.moveId).power > 0
        mayBePar == \/ mon.statusCondition = "PAR"
                    \/ otherAction.moveId \in {"ThunderWave", "Thunderbolt"}
    IN  [par : IF mayBePar THEN BOOLEAN ELSE {FALSE},
         crit : IF hits THEN BOOLEAN ELSE {FALSE},
         roll : IF hits THEN Rolls ELSE {999},
         sec : IF fights /\ action.moveId = "Thunderbolt" THEN BOOLEAN ELSE {FALSE}]

----------------------------------------------------------------------------
(* battleSystem: executeAttack, switchPokemon, attemptToRun                *)
(* participantIndex and pokemonIndex are 1-based here, 0-based in the code *)

\* executeAttack(battle, attackerIndex, moveId): the updatedBattle returned
executeAttack(b, attackerIndex, moveId, isCritical, roll) ==
    LET defenderIndex == 3 - attackerIndex
        attacker == b.participants[attackerIndex]
        defender == b.participants[defenderIndex]
        attackerPokemon == attacker.activePokemon
        defenderPokemon == defender.activePokemon
        mi == FindMove(attackerPokemon, moveId)
    IN  IF mi = 0 THEN [b EXCEPT !.status = "WAITING_FOR_INPUT"]
        ELSE
        LET damage == battleCalculationsDamage(attackerPokemon, defenderPokemon,
                                               attackerPokemon.moves[mi], isCritical, roll)
            updatedDefenderPokemon ==
                [defenderPokemon EXCEPT !.currentHp = Max(0, @ - damage.damage)]
            \* "party: defender.party.map((p, idx) => idx === 0 ? updatedDefenderPokemon : p)"
            newDefender ==
                [defender EXCEPT
                    !.activePokemon = updatedDefenderPokemon,
                    !.party = [j \in 1..Len(defender.party) |->
                                  IF j = 1 THEN updatedDefenderPokemon
                                  ELSE defender.party[j]],
                    !.activeRef = IF Len(defender.party) > 0 THEN 1 ELSE 0]
            b1 == [b EXCEPT !.participants[defenderIndex] = newDefender,
                            !.log = Append(Append(@, "used"), "damage")]
            fainted == updatedDefenderPokemon.currentHp <= 0
            remaining == \E j \in 1..Len(b1.participants[1].party) :
                            b1.participants[1].party[j].currentHp > 0
        IN  IF fainted
            THEN IF defenderIndex = 2 /\ Len(b1.participants[2].party) = 1
                 THEN [b1 EXCEPT !.status = "PLAYER_WIN",
                                 !.log = Append(Append(@, "fainted"), "you won")]
                 ELSE IF defenderIndex = 1
                 THEN IF ~remaining
                      THEN [b1 EXCEPT !.status = "OPPONENT_WIN",
                                      !.log = Append(Append(@, "fainted"), "you lost")]
                      ELSE [b1 EXCEPT !.status = "WAITING_FOR_INPUT",
                                      !.log = Append(Append(@, "fainted"), "choose next")]
                 ELSE [b1 EXCEPT !.log = Append(@, "fainted")]
            ELSE [b1 EXCEPT !.turn = @ + 1, !.status = "WAITING_FOR_INPUT"]

\* switchPokemon(battle, participantIndex, pokemonIndex): the updatedBattle
\* returned.  "participant.activePokemon === participant.party[pokemonIndex]"
\* compares object identity, which activeRef records.
switchPokemon(b, participantIndex, pokemonIndex) ==
    LET participant == b.participants[participantIndex]
    IN  IF pokemonIndex < 1 \/ pokemonIndex > Len(participant.party)
        THEN [b EXCEPT !.status = "WAITING_FOR_INPUT"]
        ELSE IF participant.activeRef = pokemonIndex
        THEN [b EXCEPT !.status = "WAITING_FOR_INPUT"]
        ELSE IF participant.party[pokemonIndex].currentHp <= 0
        THEN [b EXCEPT !.status = "WAITING_FOR_INPUT"]
        ELSE [b EXCEPT !.participants[participantIndex].activePokemon =
                           participant.party[pokemonIndex],
                       !.participants[participantIndex].activeRef = pokemonIndex,
                       !.turn = @ + 1,
                       !.status = "WAITING_FOR_INPUT",
                       !.log = Append(@, "switched")]

\* useItem(battle, userIndex, itemId, targetPokemonIndex): not implemented, the
\* updatedBattle returned is the battle with status WAITING_FOR_INPUT
useItem(b, userIndex, itemId, targetPokemonIndex) ==
    [b EXCEPT !.status = "WAITING_FOR_INPUT"]

\* escapeOdds without the wrap-around at 256
escapeOdds_NoWrap(playerSpeed, wildSpeed) ==
    ((playerSpeed * 128) \div wildSpeed) + 30

\* "Math.floor((playerSpeed * 128) / wildSpeed + 30) % 256"
escapeOdds(playerSpeed, wildSpeed) ==
    (((playerSpeed * 128) \div wildSpeed) + 30) % 256

\* attemptToRun with the log of a failed attempt set to its messages alone
attemptToRun_FreshLog(b, participantIndex, randomValue) ==
    IF participantIndex # 1 THEN [b EXCEPT !.status = "WAITING_FOR_INPUT"]
    ELSE IF Len(b.participants) # 2 \/ Len(b.participants[2].party) > 1
    THEN [b EXCEPT !.status = "WAITING_FOR_INPUT"]
    ELSE IF randomValue < escapeOdds(b.participants[1].activePokemon.stats.speed,
                                     b.participants[2].activePokemon.stats.speed)
    THEN [b EXCEPT !.status = "FLED", !.log = Append(@, "fled")]
    ELSE [b EXCEPT !.turn = @ + 1, !.status = "WAITING_FOR_INPUT",
                   !.log = <<"could not flee">>]

\* attemptToRun(battle, participantIndex): the updatedBattle returned;
\* randomValue is Math.floor(Math.random() * 256)
attemptToRun(b, participantIndex, randomValue) ==
    IF participantIndex # 1 THEN [b EXCEPT !.status = "WAITING_FOR_INPUT"]
    ELSE IF Len(b.participants) # 2 \/ Len(b.participants[2].party) > 1
    THEN [b EXCEPT !.status = "WAITING_FOR_INPUT"]
    ELSE IF randomValue < escapeOdds(b.participants[1].activePokemon.stats.speed,
                                     b.participants[2].activePokemon.stats.speed)
    THEN [b EXCEPT !.status = "FLED", !.log = Append(@, "fled")]
    ELSE [b EXCEPT !.turn = @ + 1, !.status = "WAITING_FOR_INPUT",
                   !.log = Append(@, "could not flee")]

----------------------------------------------------------------------------
(* Session layer: handleCommand (pages/api/game-session), stateManager,    *)
(* commandManager                                                          *)

\* stateManager.createNewPlayer: the Player a new session starts with
createNewPlayer ==
    [locationId |-> "beginville_square",
     inventory |-> << [itemId |-> "potion", quantity |-> 3],
                      [itemId |-> "pokeball", quantity |-> 5] >>]

\* index of the inventory entry for the item, 0 when the player has none
FindItem(inventory, itemId) ==
    IF \E i \in 1..Len(inventory) : inventory[i].itemId = itemId
    THEN CHOOSE i \in 1..Len(inventory) :
            /\ inventory[i].itemId = itemId
            /\ \A j \in 1..(i - 1) : inventory[j].itemId # itemId
    ELSE 0

Quantity(inventory, itemId) ==
    IF FindItem(inventory, itemId) = 0 THEN 0
    ELSE inventory[FindItem(inventory, itemId)].quantity

\* Array.prototype.splice(i, 1)
Splice(seq, i) == SubSeq(seq, 1, i - 1) \o SubSeq(seq, i + 1, Len(seq))

\* commandManager.handleDropItem after getItems() has resolved: the result's
\* updatedPlayerState.  has = FALSE stands for the empty object {}.
handleDropItem(itemName, playerState) ==
    LET i == FindItem(playerState.inventory, itemName)
    IN  IF i = 0 THEN [has |-> FALSE, inventory |-> <<>>]
        ELSE IF playerState.inventory[i].quantity > 1
        THEN [has |-> TRUE,
              inventory |-> [playerState.inventory EXCEPT ![i].quantity = @ - 1]]
        ELSE [has |-> TRUE, inventory |-> Splice(playerState.inventory, i)]

\* commandManager.processCommand for the commands sent here, once the item
\* data is available
processCommand(cmd, playerState) ==
    IF cmd.verb = "drop" THEN handleDropItem(cmd.arg, playerState)
    ELSE [has |-> FALSE, inventory |-> <<>>]    \* 'inventory': read only

\* stateManager.updatePlayerState: merge the update into the stored object
updatePlayerState(stored, updatedState) ==
    IF updatedState.has THEN [stored EXCEPT !.inventory = updatedState.inventory]
    ELSE stored

Commands ==
    { [verb |-> "drop", arg |-> "potion"], [verb |-> "drop", arg |-> "pokeball"],
      [verb |-> "inventory", arg |-> ""] }
NoCommand == [verb |-> "", arg |-> ""]

Requests == 1..MaxRequests

\* the server after start-up: no move data read, no session, the clock at 0
ServerIdle ==
    /\ cachedMoves = <<>>
    /\ activeSessions = <<>>
    /\ now = 0

SessionIdle ==
    /\ ServerIdle
    /\ gameStates = createNewPlayer
    /\ cachedItems = FALSE
    /\ req = [r \in Requests |-> [pc |-> "idle", cmd |-> NoCommand,
                                  playerState |-> createNewPlayer]]
    /\ acked = [i \in {"potion", "pokeball"} |-> 0]

\* second half of handleCommand: the command result is applied to the store
\* and acknowledged to the client
Finish(r, cmd, playerState) ==
    LET result == processCommand(cmd, playerState)
    IN  /\ gameStates' = updatePlayerState(gameStates, result)
        /\ acked' = IF result.has THEN [acked EXCEPT ![cmd.arg] = @ + 1] ELSE acked
        /\ req' = [req EXCEPT ![r] = [pc |-> "done", cmd |-> cmd,
                                      playerState |-> playerState]]

\* handleCommand(sessionId, commandText): reads the stored Player, then
\* processCommand awaits getItems().  With the item data cached every await
\* resolves without leaving the request and the handler runs to its end; with
\* a cold cache the request is suspended in the file read.
HandleCommand(r) ==
    /\ req[r].pc = "idle"
    /\ \E cmd \in Commands :
        IF cachedItems
        THEN /\ Finish(r, cmd, gameStates)
             /\ UNCHANGED cachedItems
        ELSE /\ req' = [req EXCEPT ![r] = [pc |-> "loading", cmd |-> cmd,
                                           playerState |-> gameStates]]
             /\ UNCHANGED <<gameStates, cachedItems, acked>>
    /\ UNCHANGED <<battleVars, serverVars>>

\* the file read of a suspended request completes: getItems() fills the
\* cache, the handler computes the command on the Player object it read
\* before the await and stores the result
ItemsLoaded(r) ==
    /\ req[r].pc = "loading"
    /\ cachedItems' = TRUE
    /\ Finish(r, req[r].cmd, req[r].playerState)
    /\ UNCHANGED <<battleVars, serverVars>>

----------------------------------------------------------------------------
(* constants/experience.ts and pokemonManager.ts                           *)

\* getTotalExperienceForLevel without the cap at level 100
getTotalExperienceForLevel_NoCap(group, level) ==
    IF level <= 1 THEN 0
    ELSE LET n == level
             totalXp ==
                CASE group = "fast"        -> (4 * n * n * n) \div 5
                  [] group = "medium_fast" -> n * n * n
                  [] group = "medium_slow" ->
                        (6 * n * n * n - 75 * n * n + 500 * n - 700) \div 5
                  [] group = "slow"        -> (5 * n * n * n) \div 4
                  [] OTHER                 -> n * n * n
         IN  Max(0, totalXp)

\* getTotalExperienceForLevel(group, level): total experience needed to reach
\* the level; the level is capped at 100, an unknown group counts as
\* medium_fast
getTotalExperienceForLevel(group, level) ==
    IF level <= 1 THEN 0
    ELSE LET n == IF level > 100 THEN 100 ELSE level
             totalXp ==
                CASE group = "fast"        -> (4 * n * n * n) \div 5
                  [] group = "medium_fast" -> n * n * n
                  [] group = "medium_slow" ->
                        (6 * n * n * n - 75 * n * n + 500 * n - 700) \div 5
                  [] group = "slow"        -> (5 * n * n * n) \div 4
                  [] OTHER                 -> n * n * n
         IN  Max(0, totalXp)

\* getExperienceGroupFromString: missing ("") and unknown names give medium_fast
getExperienceGroupFromString(groupName) ==
    IF groupName \in {"fast", "medium_fast", "medium_slow", "slow"} THEN groupName
    ELSE "medium_fast"

\* getExperienceGroupForPokemon: the placeholder table by Pokedex id
getExperienceGroupForPokemon(pokedexId) ==
    IF pokedexId \in {"Y0001", "Y0004", "Y0007"} THEN "medium_slow"
    ELSE IF pokedexId = "Y0010" THEN "medium_fast"
    ELSE IF pokedexId = "Y0018" THEN "slow"
    ELSE "medium_fast"

\* base pp of a move in the move data
MoveBasePp(name) ==
    CASE name = "Tackle"      -> 35
      [] name = "ThunderWave" -> 20
      [] name = "Thunderbolt" -> 15
      [] OTHER                -> 10

\* Pokedex entries (getPokemonSpeciesDetails) of the species used here: types,
\* base stats of the form 一般, experience group ("" when the entry has none)
\* and the level-up learnset
SpeciesData(pokedexId) ==
    CASE pokedexId = "Y0010" ->
            [yudex_id |-> "Y0010", types |-> <<"Electric">>,
             stats |-> [hp |-> 35, attack |-> 55, defense |-> 40,
                        sp_attack |-> 50, sp_defense |-> 50, speed |-> 90],
             experienceGroup |-> "medium_fast",
             learned |-> << [level_learned_at |-> 1, name |-> "Tackle"],
                            [level_learned_at |-> 4, name |-> "ThunderWave"],
                            [level_learned_at |-> 6, name |-> "Thunderbolt"] >>]
      [] pokedexId = "Y0050" ->
            [yudex_id |-> "Y0050", types |-> <<"Ground">>,
             stats |-> [hp |-> 10, attack |-> 55, defense |-> 25,
                        sp_attack |-> 35, sp_defense |-> 45, speed |-> 95],
             experienceGroup |-> "fast",
             learned |-> << [level_learned_at |-> 1, name |-> "Tackle"] >>]
      [] pokedexId = "Y0004" ->
            [yudex_id |-> "Y0004", types |-> <<"Normal">>,
             stats |-> [hp |-> 39, attack |-> 52, defense |-> 43,
                        sp_attack |-> 60, sp_defense |-> 50, speed |-> 65],
             experienceGroup |-> "medium_fast",
             learned |-> << [level_learned_at |-> 1, name |-> "Scratch"],
                            [level_learned_at |-> 2, name |-> "Growl"],
                            [level_learned_at |-> 3, name |-> "Ember"],
                            [level_learned_at |-> 4, name |-> "Smokescreen"],
                            [level_learned_at |-> 5, name |-> "DragonRage"],
                            [level_learned_at |-> 7, name |-> "Slash"] >>]
      [] pokedexId = "Y0001" ->
            [yudex_id |-> "Y0001", types |-> <<"Normal">>,
             stats |-> [hp |-> 45, attack |-> 49, defense |-> 49,
                        sp_attack |-> 65, sp_defense |-> 65, speed |-> 45],
             experienceGroup |-> "",
             learned |-> << [level_learned_at |-> 1, name |-> "Tackle"] >>]
      [] OTHER ->
            [yudex_id |-> "Y0018", types |-> <<"Normal">>,
             stats |-> [hp |-> 20, attack |-> 10, defense |-> 55,
                        sp_attack |-> 15, sp_defense |-> 20, speed |-> 80],
             experienceGroup |-> "slow",
             learned |-> << [level_learned_at |-> 1, name |-> "Tackle"] >>]

\* getNatureModifier, in tenths: 11 for the raised stat, 9 for the lowered one
getNatureModifier10(natureId, stat) ==
    CASE natureId = "adamant" /\ stat = "attack"   -> 11
      [] natureId = "adamant" /\ stat = "spAttack" -> 9
      [] natureId = "timid" /\ stat = "speed"      -> 11
      [] natureId = "timid" /\ stat = "attack"     -> 9
      [] OTHER -> 10

\* calculateStats without the nature multiplier
calculateStats_NoNature(instance, speciesData) ==
    LET level == instance.level
        orOne(base) == IF base = 0 THEN 1 ELSE base
        other(base, iv, ev, stat) ==
            Max(1, (((((2 * orOne(base) + iv + (ev \div 4)) * level) \div 100) + 5)
                     * 10) \div 10)
    IN  [hp |-> (((2 * orOne(speciesData.stats.hp) + instance.ivs.hp
                     + (instance.evs.hp \div 4)) * level) \div 100) + level + 10,
         attack |-> other(speciesData.stats.attack, instance.ivs.attack,
                          instance.evs.attack, "attack"),
         defense |-> other(speciesData.stats.defense, instance.ivs.defense,
                           instance.evs.defense, "defense"),
         spAttack |-> other(speciesData.stats.sp_attack, instance.ivs.spAttack,
                            instance.evs.spAttack, "spAttack"),
         spDefense |-> other(speciesData.stats.sp_defense, instance.ivs.spDefense,
                             instance.evs.spDefense, "spDefense"),
         speed |-> other(speciesData.stats.speed, instance.ivs.speed,
                         instance.evs.speed, "speed")]

\* calculateStats(instance, speciesData); a base stat that parses to 0 counts
\* as 1 (parseInt(...) || 1)
calculateStats(instance, speciesData) ==
    LET level == instance.level
        orOne(base) == IF base = 0 THEN 1 ELSE base
        other(base, iv, ev, stat) ==
            Max(1, (((((2 * orOne(base) + iv + (ev \div 4)) * level) \div 100) + 5)
                     * getNatureModifier10(instance.natureId, stat)) \div 10)
    IN  [hp |-> (((2 * orOne(speciesData.stats.hp) + instance.ivs.hp
                     + (instance.evs.hp \div 4)) * level) \div 100) + level + 10,
         attack |-> other(speciesData.stats.attack, instance.ivs.attack,
                          instance.evs.attack, "attack"),
         defense |-> other(speciesData.stats.defense, instance.ivs.defense,
                           instance.evs.defense, "defense"),
         spAttack |-> other(speciesData.stats.sp_attack, instance.ivs.spAttack,
                            instance.evs.spAttack, "spAttack"),
         spDefense |-> other(speciesData.stats.sp_defense, instance.ivs.spDefense,
                             instance.evs.spDefense, "spDefense"),
         speed |-> other(speciesData.stats.speed, instance.ivs.speed,
                         instance.evs.speed, "speed")]

\* the learnset entries taken in the order of the list that satisfy the test
RECURSIVE MovesLearned(_, _, _)
MovesLearned(learned, lo, hi) ==
    IF learned = <<>> THEN <<>>
    ELSE (IF Head(learned).level_learned_at >= lo /\ Head(learned).level_learned_at <= hi
          THEN <<Mv(Head(learned).name, MoveBasePp(Head(learned).name))>>
          ELSE <<>>) \o MovesLearned(Tail(learned), lo, hi)

\* the last (at most) four elements: Array.prototype.slice(-4)
LastFour(seq) == IF Len(seq) > 4 THEN SubSeq(seq, Len(seq) - 3, Len(seq)) ELSE seq

\* the level-up entries of a learnset learned at or before a level, sorted by
\* level descending as Array.prototype.sort sorts them: entries of the same
\* level keep their order
RECURSIVE InsertByLevel(_, _)
InsertByLevel(entry, sorted) ==
    IF sorted = <<>> THEN <<entry>>
    ELSE IF Head(sorted).level_learned_at < entry.level_learned_at
    THEN <<entry>> \o sorted
    ELSE <<Head(sorted)>> \o InsertByLevel(entry, Tail(sorted))

RECURSIVE SortByLevelDescending(_, _)
SortByLevelDescending(entries, sorted) ==
    IF entries = <<>> THEN sorted
    ELSE SortByLevelDescending(Tail(entries), InsertByLevel(Head(entries), sorted))

learnedMoveEntries(learned, level) ==
    SortByLevelDescending(SelectSeq(learned, LAMBDA entry : entry.level_learned_at <= level),
                          <<>>)

\* the loop of createPokemonInstance over learnedMoveEntries: at most four
\* moves, a name taken once
RECURSIVE InitialMoves(_, _)
InitialMoves(entries, initialMoves) ==
    IF entries = <<>> \/ Len(initialMoves) >= 4 THEN initialMoves
    ELSE IF \E i \in 1..Len(initialMoves) : initialMoves[i].name = Head(entries).name
    THEN InitialMoves(Tail(entries), initialMoves)
    ELSE InitialMoves(Tail(entries),
                      Append(initialMoves,
                             Mv(Head(entries).name, MoveBasePp(Head(entries).name))))

\* the same IV for every stat
SameIvs(v) == [hp |-> v, attack |-> v, defense |-> v,
               spAttack |-> v, spDefense |-> v, speed |-> v]

\* createPokemonInstance without the final clamp of currentHp
createPokemonInstance_NoClamp(pokedexId, level, options) ==
    LET speciesData == SpeciesData(pokedexId)
        experienceGroup == getExperienceGroupFromString(speciesData.experienceGroup)
        base == [level |-> level, natureId |-> options.natureId,
                 ivs |-> SameIvs(options.iv), evs |-> SameIvs(0)]
        calculatedStats == calculateStats(base, speciesData)
    IN  [instanceId |-> options.instanceId,
         pokedexId |-> pokedexId,
         types |-> speciesData.types,
         level |-> level,
         moves |-> InitialMoves(learnedMoveEntries(speciesData.learned, level), <<>>),
         xp |-> getTotalExperienceForLevel(experienceGroup, level),
         xpToNextLevel |-> getTotalExperienceForLevel(experienceGroup, level + 1),
         statusCondition |-> IF options.statusCondition = "" THEN "undefined"
                             ELSE options.statusCondition,
         ivs |-> SameIvs(options.iv), evs |-> SameIvs(0),
         natureId |-> options.natureId,
         stats |-> [attack |-> speciesData.stats.attack,
                    defense |-> speciesData.stats.defense,
                    specialAttack |-> speciesData.stats.sp_attack,
                    specialDefense |-> speciesData.stats.sp_defense,
                    speed |-> speciesData.stats.speed],
         calculatedStats |-> calculatedStats,
         maxHp |-> calculatedStats.hp,
         currentHp |-> IF options.currentHp = <<>> THEN calculatedStats.hp
                       ELSE options.currentHp[1]]

\* createPokemonInstance(pokedexId, level, options): the instance with its
\* moves, experience, stats and HP.  options carries instanceId, the nature
\* and the IV the function would draw, statusCondition ("" when absent, the
\* instance then has the status condition undefined, which is not null) and
\* currentHp (<<>> when absent).
createPokemonInstance(pokedexId, level, options) ==
    LET finalInstance == createPokemonInstance_NoClamp(pokedexId, level, options)
    IN  [finalInstance EXCEPT
            !.currentHp = IF finalInstance.maxHp <= Max(0, finalInstance.currentHp)
                          THEN finalInstance.maxHp
                          ELSE Max(0, finalInstance.currentHp)]

\* checkMoveLearning(instance, speciesData, newLevel): the moves of the
\* instance after the moves learned at the new level were added
checkMoveLearning(instance, speciesData, newLevel) ==
    LET newLevelMoves == MovesLearned(speciesData.learned, newLevel, newLevel)
    IN  IF newLevelMoves = <<>> THEN instance.moves
        ELSE LastFour(instance.moves \o newLevelMoves)

\* the body of the while loop of addExperience: one level gained
LevelUp(instance, speciesData) ==
    The({ The({ [i1 EXCEPT !.calculatedStats = newStats,
                           !.maxHp = newStats.hp,
                           !.currentHp = newStats.hp,
                           !.moves = checkMoveLearning(i1, speciesData, i1.level)]
                : newStats \in {calculateStats(i1, speciesData)} })
          : i1 \in {[instance EXCEPT !.level = @ + 1]} })

\* one pass of the while loop of addExperience over its two variables, the
\* instance and xpForNextLevel; the pass changes nothing once the condition
\* of the loop is false, and the break at level 100 leaves a state in which
\* it is false
LoopPass(st, speciesData, expGroup) ==
    IF st.instance.xp >= st.xpForNextLevel /\ st.instance.level < 100
    THEN The({ [instance |-> i2,
                xpForNextLevel |->
                    IF i2.level < 100
                    THEN getTotalExperienceForLevel(expGroup, i2.level + 1)
                    ELSE st.xpForNextLevel]
               : i2 \in {LevelUp(st.instance, speciesData)} })
    ELSE st

\* 2^k passes of the loop, one after the other
RECURSIVE LoopPasses(_, _, _, _)
LoopPasses(k, st, speciesData, expGroup) ==
    IF k = 0 THEN LoopPass(st, speciesData, expGroup)
    ELSE The({ LoopPasses(k - 1, half, speciesData, expGroup)
               : half \in {LoopPasses(k - 1, st, speciesData, expGroup)} })

\* the while loop of addExperience and the assignment that follows it: every
\* pass that changes the state raises the level, and none does from level
\* 100, so the 128 passes taken here include every pass the loop makes for
\* levels 1..100
LevelUpLoop(instance, speciesData, expGroup, xpForNextLevel) ==
    The({ [st.instance EXCEPT !.xpToNextLevel = st.xpForNextLevel]
          : st \in {LoopPasses(7, [instance |-> instance,
                                   xpForNextLevel |-> xpForNextLevel],
                               speciesData, expGroup)} })

\* addExperience without the early return for a creature at level 100
addExperience_NoEarlyReturn(instance, speciesData, amount) ==
    LET expGroup == IF speciesData.experienceGroup # ""
                    THEN getExperienceGroupFromString(speciesData.experienceGroup)
                    ELSE getExperienceGroupForPokemon(instance.pokedexId)
    IN  LevelUpLoop([instance EXCEPT !.xp = @ + amount], speciesData, expGroup,
                    getTotalExperienceForLevel(expGroup, instance.level + 1))

\* addExperience(instance, speciesData, amount): the instance after the call
addExperience(instance, speciesData, amount) ==
    IF instance.level >= 100 THEN instance
    ELSE LET expGroup == IF speciesData.experienceGroup # ""
                         THEN getExperienceGroupFromString(speciesData.experienceGroup)
                         ELSE getExperienceGroupForPokemon(instance.pokedexId)
         IN  LevelUpLoop([instance EXCEPT !.xp = @ + amount], speciesData, expGroup,
                         getTotalExperienceForLevel(expGroup, instance.level + 1))

----------------------------------------------------------------------------
(* pokemonUtils.ts: calculateStats, calculateXpToNextLevel,                *)
(* recalculateStatsAndHp and addExperience                                 *)

\* calculateMaxHp(instance, baseStats)
calculateMaxHp(instance, bs) ==
    Max(1, (((2 * bs.hp + instance.ivs.hp + (instance.evs.hp \div 4)) * instance.level)
               \div 100) + instance.level + 10)

\* calculateStats(instance, baseStats) of pokemonUtils.ts; natureInfo is the
\* NATURES entry getNatureModifier reads
pokemonUtilsCalculateStats(instance, bs) ==
    LET calculateSingleStat(base, iv, ev, stat) ==
            Max(1, (((((2 * base + iv + (ev \div 4)) * instance.level) \div 100) + 5)
                     * getNatureModifier10(instance.natureId, stat)) \div 10)
    IN  [hp |-> calculateMaxHp(instance, bs),
         attack |-> calculateSingleStat(bs.attack, instance.ivs.attack,
                                        instance.evs.attack, "attack"),
         defense |-> calculateSingleStat(bs.defense, instance.ivs.defense,
                                         instance.evs.defense, "defense"),
         spAttack |-> calculateSingleStat(bs.spAttack, instance.ivs.spAttack,
                                          instance.evs.spAttack, "spAttack"),
         spDefense |-> calculateSingleStat(bs.spDefense, instance.ivs.spDefense,
                                           instance.evs.spDefense, "spDefense"),
         speed |-> calculateSingleStat(bs.speed, instance.ivs.speed,
                                       instance.evs.speed, "speed")]

\* calculateXpToNextLevel(level): Math.floor(level^3 * 0.8) is floor(4 level^3 / 5)
calculateXpToNextLevel(level) ==
    IF level >= 100 THEN 0
    ELSE IF level <= 1 THEN 10
    ELSE Max(10, ((4 * (level + 1) * (level + 1) * (level + 1)) \div 5)
                   - ((4 * level * level * level) \div 5))

\* Math.round(hp * (currentHp / oldMaxHp)) for non-negative arguments
RoundOfRatio(hp, currentHp, oldMaxHp) ==
    (2 * hp * currentHp + oldMaxHp) \div (2 * oldMaxHp)

\* recalculateStatsAndHp(instance) for an instance whose speciesDetails carry
\* the base stats of the form 一般
recalculateStatsAndHp(instance, speciesDetails) ==
    LET baseStats == [hp |-> speciesDetails.stats.hp,
                      attack |-> speciesDetails.stats.attack,
                      defense |-> speciesDetails.stats.defense,
                      spAttack |-> speciesDetails.stats.sp_attack,
                      spDefense |-> speciesDetails.stats.sp_defense,
                      speed |-> speciesDetails.stats.speed]
        oldMaxHp == instance.calculatedStats.hp
    IN  The({ The({ [instance EXCEPT
                        !.calculatedStats = newStats,
                        !.maxHp = newStats.hp,
                        !.currentHp = Max(0, IF hp <= newStats.hp THEN hp ELSE newStats.hp),
                        !.xpToNextLevel = calculateXpToNextLevel(instance.level)]
                    : hp \in { IF newStats.hp # oldMaxHp /\ oldMaxHp > 0
                               THEN RoundOfRatio(newStats.hp, instance.currentHp, oldMaxHp)
                               ELSE IF oldMaxHp = 0 /\ newStats.hp > 0
                               THEN newStats.hp
                               ELSE IF instance.currentHp > newStats.hp
                               THEN newStats.hp
                               ELSE instance.currentHp } })
              : newStats \in {pokemonUtilsCalculateStats(instance, baseStats)} })

\* one pass of the while loop of pokemonUtils.addExperience; the pass changes
\* nothing once the condition of the loop is false
UtilsLoopPass(instance) ==
    IF /\ instance.level < 100
       /\ instance.xpToNextLevel > 0
       /\ instance.xp >= instance.xpToNextLevel
    THEN [instance EXCEPT !.xp = @ - instance.xpToNextLevel,
                          !.level = @ + 1,
                          !.xpToNextLevel = calculateXpToNextLevel(instance.level + 1)]
    ELSE instance

\* 2^k passes of that loop, one after the other
RECURSIVE UtilsLoopPasses(_, _)
UtilsLoopPasses(k, instance) ==
    IF k = 0 THEN UtilsLoopPass(instance)
    ELSE The({ UtilsLoopPasses(k - 1, half) : half \in {UtilsLoopPasses(k - 1, instance)} })

\* pokemonUtils.addExperience without the call of recalculateStatsAndHp
pokemonUtilsAddExperience_NoRecalculation(instance, speciesDetails, amount) ==
    IF instance.level >= 100 THEN instance
    ELSE UtilsLoopPasses(7, [instance EXCEPT !.xp = @ + amount])

\* addExperience(instance, amount) of pokemonUtils.ts: the instance after the
\* call.  speciesDetails is <<>> for an instance without the field and
\* <<entry>> otherwise; every pass of the loop that changes the instance raises
\* the level, so the 128 passes taken include every pass the loop makes.
pokemonUtilsAddExperience(instance, speciesDetails, amount) ==
    IF instance.level >= 100 THEN instance
    ELSE The({ IF looped.level > instance.level
               THEN IF speciesDetails # <<>>
                    THEN recalculateStatsAndHp(looped, speciesDetails[1])
                    ELSE looped
               ELSE IF looped.xpToNextLevel <= 0
               THEN [looped EXCEPT !.xpToNextLevel = calculateXpToNextLevel(looped.level)]
               ELSE looped
               : looped \in {UtilsLoopPasses(7, [instance EXCEPT !.xp = @ + amount])} })

----------------------------------------------------------------------------
(* Capture: calculateCaptureRate (battleCalculations), calculateCatchRate  *)
(* (battleManager.ts) and attemptCapture (battleCapture.ts)                *)

Min(a, b) == IF a <= b THEN a ELSE b

\* statusCaptureBonuses and StatusCatchBonus, the same table twice, in halves;
\* a condition without an entry (and none at all) counts 1.0
statusCaptureBonuses2(statusCondition) ==
    CASE statusCondition \in {"SLP", "FRZ"}        -> 5
      [] statusCondition \in {"PAR", "BRN", "PSN"} -> 3
      [] OTHER                                     -> 2

\* ballCaptureBonuses, in halves; a ball without an entry counts 1.0
ballCaptureBonuses2(ballType) ==
    CASE ballType = "greatball"  -> 3
      [] ballType = "ultraball"  -> 4
      [] ballType = "masterball" -> 510
      [] OTHER                   -> 2

\* calculateCaptureRate with the term of the current HP left out
calculateCaptureRate255_HpIgnored(pokemon, ballBonus2, statusBonus2) ==
    LET baseCaptureRate == IF pokemon.catchRate = <<>> \/ pokemon.catchRate = <<0>>
                           THEN 45 ELSE pokemon.catchRate[1]
    IN  Min(255, ((3 * pokemon.maxHp) * baseCaptureRate * ballBonus2 * statusBonus2)
                    \div (12 * pokemon.maxHp))

\* calculateCaptureRate(pokemon, ballBonus, statusBonus) times 255: the value
\* captureRate of the code.  The bonuses come in halves; catchRate is <<>>
\* for a species entry without the field.
calculateCaptureRate255(pokemon, ballBonus2, statusBonus2) ==
    LET baseCaptureRate == IF pokemon.catchRate = <<>> \/ pokemon.catchRate = <<0>>
                           THEN 45 ELSE pokemon.catchRate[1]
    IN  Min(255, ((3 * pokemon.maxHp - 2 * pokemon.currentHp)
                     * baseCaptureRate * ballBonus2 * statusBonus2)
                    \div (12 * pokemon.maxHp))

\* calculateCatchRate(target, ball): catchProbability times 255
calculateCatchRate255(target, ballBonus2) ==
    LET speciesCatchRate == IF target.catchRate = <<>> THEN 45 ELSE target.catchRate[1]
        statusBonus2 == statusCaptureBonuses2(target.statusCondition)
        maxHP == target.calculatedStats.hp
    IN  Max(1, ((3 * maxHP - 2 * target.currentHp)
                   * speciesCatchRate * ballBonus2 * statusBonus2) \div (12 * maxHP))

\* the captureRate attemptCapture draws against, times 255
attemptCaptureRate255(wildPokemon, ballType) ==
    calculateCaptureRate255(wildPokemon, ballCaptureBonuses2(ballType),
                            statusCaptureBonuses2(wildPokemon.statusCondition))

\* attemptCapture, lines 107-120: the captured creature always joins the team
storeCaptured_AlwaysTeam(team, pcBox, capturedPokemon) ==
    [team |-> Append(team, capturedPokemon), pcBox |-> pcBox]

\* attemptCapture, lines 107-120: the captured creature joins the team while
\* the team has fewer than 6 members, the PC box otherwise
storeCaptured(team, pcBox, capturedPokemon) ==
    IF Len(team) < 6
    THEN [team |-> Append(team, capturedPokemon), pcBox |-> pcBox]
    ELSE [team |-> team, pcBox |-> Append(pcBox, capturedPokemon)]

\* attemptCapture, lines 122-145: the species is recorded as caught unless it
\* already is, and as seen only within that branch
recordCaught(pokedex, pokedexId) ==
    LET isCaught == \E i \in 1..Len(pokedex.caught) : pokedex.caught[i] = pokedexId
        isSeen   == \E i \in 1..Len(pokedex.seen) : pokedex.seen[i] = pokedexId
    IN  IF isCaught THEN pokedex
        ELSE [seen   |-> IF isSeen THEN pokedex.seen
                         ELSE Append(pokedex.seen, pokedexId),
              caught |-> Append(pokedex.caught, pokedexId)]

\* attemptCapture with the ball kept when the capture fails
attemptCapture_BallKeptOnFailure(b, playerState, ballType, randomValue255) ==
    IF Len(b.participants) < 2 \/ Len(b.participants[2].party) # 1
    THEN [updatedPlayerState |-> <<>>, success |-> FALSE]
    ELSE
    LET wildPokemon        == b.participants[2].activePokemon
        inventoryItemIndex == FindItem(playerState.inventory, ballType)
    IN  IF inventoryItemIndex = 0
        THEN [updatedPlayerState |-> <<>>, success |-> FALSE]
        ELSE
        LET updatedInventory ==
                IF playerState.inventory[inventoryItemIndex].quantity > 1
                THEN [playerState.inventory EXCEPT ![inventoryItemIndex].quantity = @ - 1]
                ELSE Splice(playerState.inventory, inventoryItemIndex)
            captureRate255 == attemptCaptureRate255(wildPokemon, ballType)
            success == randomValue255 < captureRate255 \/ ballType = "masterball"
            stored  == storeCaptured(playerState.team, playerState.pcBox, wildPokemon)
        IN  IF success
            THEN [updatedPlayerState |->
                    [team |-> stored.team,
                     pcBox |-> stored.pcBox,
                     inventory |-> updatedInventory,
                     pokedex |-> recordCaught(playerState.pokedex, wildPokemon.pokedexId),
                     currentBattle |-> "undefined"],
                  success |-> TRUE]
            ELSE [updatedPlayerState |-> [inventory |-> playerState.inventory],
                  success |-> FALSE]

\* attemptCapture(battle, playerState, ballType) with Math.random() drawn as
\* randomValue255 / 255.  updatedPlayerState is a partial Player: <<>> stands
\* for the empty object {}.
attemptCapture(b, playerState, ballType, randomValue255) ==
    IF Len(b.participants) < 2 \/ Len(b.participants[2].party) # 1
    THEN [updatedPlayerState |-> <<>>, success |-> FALSE]
    ELSE
    LET wildPokemon        == b.participants[2].activePokemon
        inventoryItemIndex == FindItem(playerState.inventory, ballType)
    IN  IF inventoryItemIndex = 0
        THEN [updatedPlayerState |-> <<>>, success |-> FALSE]
        ELSE
        LET updatedInventory ==
                IF playerState.inventory[inventoryItemIndex].quantity > 1
                THEN [playerState.inventory EXCEPT ![inventoryItemIndex].quantity = @ - 1]
                ELSE Splice(playerState.inventory, inventoryItemIndex)
            captureRate255 == attemptCaptureRate255(wildPokemon, ballType)
            success == randomValue255 < captureRate255 \/ ballType = "masterball"
            stored  == storeCaptured(playerState.team, playerState.pcBox, wildPokemon)
        IN  IF success
            THEN [updatedPlayerState |->
                    [team |-> stored.team,
                     pcBox |-> stored.pcBox,
                     inventory |-> updatedInventory,
                     pokedex |-> recordCaught(playerState.pokedex, wildPokemon.pokedexId),
                     currentBattle |-> "undefined"],
                  success |-> TRUE]
            ELSE [updatedPlayerState |-> [inventory |-> updatedInventory],
                  success |-> FALSE]

\* { ...playerState, ...updatedPlayerState }: the fields of the update replace
\* those of the player state
mergePlayerState(playerState, updatedState) ==
    [k \in DOMAIN playerState \cup DOMAIN updatedState |->
        IF k \in DOMAIN updatedState THEN updatedState[k] ELSE playerState[k]]

----------------------------------------------------------------------------
(* Encounters (pokemonUtils.ts, from line 422)                             *)

\* encounterData: the default table of loadEncounterData, a table of three
\* entries and one without entries as data/encounters.json may supply them
encounterData ==
    << [locationId |-> "route_yr01_start",
        wildPokemon |-> << [pokedexId |-> "Y0004", levelRange |-> <<3, 5>>, weight |-> 45],
                           [pokedexId |-> "Y0007", levelRange |-> <<2, 4>>, weight |-> 35] >>],
       [locationId |-> "route_yr02",
        wildPokemon |-> << [pokedexId |-> "Y0010", levelRange |-> <<2, 2>>, weight |-> 1],
                           [pokedexId |-> "Y0050", levelRange |-> <<1, 4>>, weight |-> 2],
                           [pokedexId |-> "Y0001", levelRange |-> <<5, 6>>, weight |-> 1] >>],
       [locationId |-> "cave_closed", wildPokemon |-> <<>>] >>

\* getLocationEncounter(locationId): <<>> for undefined
getLocationEncounter(locationId) ==
    IF \E i \in 1..Len(encounterData) : encounterData[i].locationId = locationId
    THEN << encounterData[CHOOSE i \in 1..Len(encounterData) :
                            encounterData[i].locationId = locationId] >>
    ELSE <<>>

\* sum of the weights of a list of entries
totalWeight(wildPokemon) ==
    LET RECURSIVE sum(_)
        sum(i) == IF i = 0 THEN 0 ELSE sum(i - 1) + wildPokemon[i].weight
    IN  sum(Len(wildPokemon))

\* selectWildPokemon with the comparison randomValue < 0
selectWildPokemon_StrictlyBelow(locationId, randomValue2) ==
    LET encounter == getLocationEncounter(locationId)
    IN  IF encounter = <<>> \/ Len(encounter[1].wildPokemon) = 0 THEN <<>>
        ELSE
        LET wildPokemon == encounter[1].wildPokemon
            RECURSIVE loop(_, _)
            loop(i, rest2) ==
                IF i > Len(wildPokemon) THEN wildPokemon[1]
                ELSE IF rest2 - 2 * wildPokemon[i].weight < 0 THEN wildPokemon[i]
                ELSE loop(i + 1, rest2 - 2 * wildPokemon[i].weight)
        IN  << loop(1, randomValue2) >>

\* selectWildPokemon(locationId) with Math.random() * totalWeight drawn as
\* randomValue2 / 2: <<>> for null, else the entry at which the draw, reduced
\* by the weights so far, is no longer positive
selectWildPokemon(locationId, randomValue2) ==
    LET encounter == getLocationEncounter(locationId)
    IN  IF encounter = <<>> \/ Len(encounter[1].wildPokemon) = 0 THEN <<>>
        ELSE
        LET wildPokemon == encounter[1].wildPokemon
            RECURSIVE loop(_, _)
            loop(i, rest2) ==
                IF i > Len(wildPokemon) THEN wildPokemon[1]
                ELSE IF rest2 - 2 * wildPokemon[i].weight <= 0 THEN wildPokemon[i]
                ELSE loop(i + 1, rest2 - 2 * wildPokemon[i].weight)
        IN  << loop(1, randomValue2) >>

\* generateWildPokemon(locationId) with the level's Math.random() drawn as
\* random8 / 8: <<>> for null
generateWildPokemon(locationId, randomValue2, random8, options) ==
    LET selectedPokemon == selectWildPokemon(locationId, randomValue2)
    IN  IF selectedPokemon = <<>> THEN <<>>
        ELSE
        LET minLevel == selectedPokemon[1].levelRange[1]
            maxLevel == selectedPokemon[1].levelRange[2]
            level    == (random8 * (maxLevel - minLevel + 1)) \div 8 + minLevel
        IN  << createPokemonInstance(selectedPokemon[1].pokedexId, level, options) >>

----------------------------------------------------------------------------
(* Spec: processTurn calls on one battle                                   *)

Init ==
    \E party \in PlayerParties, wild \in WildPokemon :
        /\ CanStartBattle(party)
        /\ battle = startBattle(party, wild)
        /\ call = [n |-> 0, pre |-> startBattle(party, wild),
                   ret |-> startBattle(party, wild),
                   input |-> startBattle(party, wild),
                   mid |-> startBattle(party, wild),
                   loopEnd |-> startBattle(party, wild),
                   playerAction |-> NoAction, opponentAction |-> NoAction,
                   order |-> <<>>, fn |-> "", amount |-> 0, who |-> 0, byte |-> 0]
    /\ SessionIdle

\* one processTurn call by the holder of the battle
ProcessTurnCall ==
    /\ call.n < MaxCalls
    /\ \E pa \in PlayerActions(battle), oa \in OpponentActions(battle) :
        \E d1 \in DrawsFor(battle, 1, pa, oa), d2 \in DrawsFor(battle, 2, oa, pa) :
            \E out \in {processTurn(battle, pa, oa, <<d1, d2>>)} :
                /\ battle' = out.ret
                /\ call' = [n |-> call.n + 1, pre |-> battle, ret |-> out.ret,
                            input |-> out.input,
                            mid |-> out.mid, loopEnd |-> out.loopEnd,
                            playerAction |-> pa, opponentAction |-> oa,
                            order |-> out.order, fn |-> "processTurn", amount |-> 0,
                            who |-> 0, byte |-> 0]
    /\ UNCHANGED <<sessionVars, serverVars>>

\* The command route returns the battle inside the player state as JSON and
\* receives it back in the next request body: activePokemon comes back as an
\* object of its own, no longer the party member.
JsonRoundTrip ==
    /\ \E i \in {1, 2} : battle.participants[i].activeRef # 0
    /\ battle' = [battle EXCEPT !.participants[1].activeRef = 0,
                                !.participants[2].activeRef = 0]
    /\ UNCHANGED call
    /\ UNCHANGED <<sessionVars, serverVars>>

Next == ProcessTurnCall \/ JsonRoundTrip

Spec == Init /\ [][Next]_vars

----------------------------------------------------------------------------
(* SpecGrowth: battles between created creatures, with experience gains    *)

\* what call holds before the first call on battle b
NoCallYet(b) ==
    [n |-> 0, pre |-> b, ret |-> b, input |-> b, mid |-> b, loopEnd |-> b,
     playerAction |-> NoAction, opponentAction |-> NoAction,
     order |-> <<>>, fn |-> "", amount |-> 0, who |-> 0, byte |-> 0]

Options(id, natureId, iv, status, hp) ==
    [instanceId |-> id, natureId |-> natureId, iv |-> iv,
     statusCondition |-> status, currentHp |-> hp]

\* experience amounts: nothing, enough for one level at level 5, enough for
\* level 100 from any level
XpAmounts == {0, 100, 2000000}

CreatedParties ==
    { <<createPokemonInstance("Y0010", 5, Options("P1", "hardy", 0, "", hp))>>
        : hp \in {<<>>, <<6>>, <<999>>} }
    \cup { <<createPokemonInstance("Y0010", 5, Options("P1", "timid", 31, "", <<-4>>)),
             createPokemonInstance("Y0001", 5, Options("P2", "hardy", 0, "", <<>>))>>,
           <<createPokemonInstance("Y0010", 5, Options("P1", "hardy", 0, "", <<>>)),
             createPokemonInstance("Y0001", 5, Options("P2", "hardy", 0, "PSN", <<>>))>> }

CreatedWild ==
    { createPokemonInstance("Y0050", 3, Options("W", "adamant", 31, "", <<>>)),
      createPokemonInstance("Y0018", 5, Options("W", "hardy", 0, "BRN", <<2>>)) }

InitGrowth ==
    /\ \E party \in CreatedParties, wild \in CreatedWild :
        /\ CanStartBattle(party)
        /\ battle = startBattle(party, wild)
        /\ call = NoCallYet(startBattle(party, wild))
    /\ SessionIdle

\* the command route's addExperience(activePokemon, speciesDetails, expGained):
\* the player's active creature object is mutated
AddExperienceCall ==
    /\ call.n < MaxCalls
    /\ \E amount \in XpAmounts :
        \E instance \in { addExperience(battle.participants[1].activePokemon,
                             SpeciesData(battle.participants[1].activePokemon.pokedexId),
                             amount) } :
            \E b \in { [battle EXCEPT !.participants[1] = WriteActive(@, instance)] } :
                /\ battle' = b
                /\ call' = [NoCallYet(b) EXCEPT !.n = call.n + 1, !.pre = battle,
                                                !.fn = "addExperience",
                                                !.amount = amount]
    /\ UNCHANGED <<sessionVars, serverVars>>

NextGrowth == ProcessTurnCall \/ AddExperienceCall \/ JsonRoundTrip

SpecGrowth == InitGrowth /\ [][NextGrowth]_vars

----------------------------------------------------------------------------
(* SpecExperience: addExperience on creatures of every experience group    *)

ExperienceSpecies == {"Y0010", "Y0050", "Y0001", "Y0018"}
ExperienceLevels == {1, 50, 98, 99, 100}

InitExperience ==
    /\ \E id \in ExperienceSpecies, level \in ExperienceLevels :
        \E b \in { startBattle(
                      <<createPokemonInstance(id, level, Options("P1", "hardy", 0, "", <<>>))>>,
                      createPokemonInstance("Y0050", 3, Options("W", "hardy", 0, "", <<>>))) } :
            /\ battle = b
            /\ call = NoCallYet(b)
    /\ SessionIdle

NextExperience == AddExperienceCall

SpecExperience == InitExperience /\ [][NextExperience]_vars

----------------------------------------------------------------------------
(* SpecImmune: processTurn against a Ground-type creature                  *)

MonG(hp, status, spd) ==
    Mon("G", <<"Ground">>, 5, hp, 12, status, 10, 10, spd, <<Mv("Tackle", 2)>>)

InitImmune ==
    /\ \E hp \in {1, 12}, status \in {"none", "PSN"}, spd \in {5, 20} :
        \E b \in { startBattle(<<MonA(12, "none")>>, MonG(hp, status, spd)) } :
            /\ battle = b
            /\ call = NoCallYet(b)
    /\ SessionIdle

SpecImmune == InitImmune /\ [][Next]_vars

----------------------------------------------------------------------------
(* SpecLevelUp: both addExperience implementations on created creatures    *)

\* pokemonUtils.addExperience(instance, amount) on the player's active
\* creature, which carries the speciesDetails createPokemonInstance stored
UtilsAddExperienceCall ==
    /\ call.n < MaxCalls
    /\ \E amount \in XpAmounts :
        \E instance \in { pokemonUtilsAddExperience(
                             battle.participants[1].activePokemon,
                             <<SpeciesData(battle.participants[1].activePokemon.pokedexId)>>,
                             amount) } :
            \E b \in { [battle EXCEPT !.participants[1] = WriteActive(@, instance)] } :
                /\ battle' = b
                /\ call' = [NoCallYet(b) EXCEPT !.n = call.n + 1, !.pre = battle,
                                                !.fn = "pokemonUtils.addExperience",
                                                !.amount = amount]
    /\ UNCHANGED <<sessionVars, serverVars>>

NextLevelUp == AddExperienceCall \/ UtilsAddExperienceCall

SpecLevelUp == InitGrowth /\ [][NextLevelUp]_vars

----------------------------------------------------------------------------
(* SpecMoves: level-ups of a species that learns more than four moves      *)

MovesLevels == 1..8

InitMoves ==
    /\ \E level \in MovesLevels, iv \in {0, 31} :
        \E b \in { startBattle(
                      <<createPokemonInstance("Y0004", level, Options("P1", "hardy", iv, "", <<>>))>>,
                      createPokemonInstance("Y0050", 3, Options("W", "hardy", 0, "", <<>>))) } :
            /\ battle = b
            /\ call = NoCallYet(b)
    /\ SessionIdle

NextMoves == AddExperienceCall

SpecMoves == InitMoves /\ [][NextMoves]_vars

----------------------------------------------------------------------------
(* SpecBattleSystem: executeAttack and switchPokemon calls on one battle;  *)
(* SpecRun: the same with attemptToRun                                     *)

\* a second creature of a trainer
MonW2 == Mon("W2", <<"Normal">>, 5, 12, 12, "none", 10, 10, 8, <<Mv("Tackle", 2)>>)

\* the battles the calls start from: a wild battle as startBattle builds it,
\* and the same battle against an opponent with two creatures
SystemBattles ==
    { IF trainer
      THEN [startBattle(party, wild) EXCEPT !.participants[2].party = <<wild, MonW2>>]
      ELSE startBattle(party, wild)
      : party \in { <<MonA(12, "none"), MonB>>, <<MonA(0, "none"), MonB>> },
        wild \in { MonW(12, "none", 5), MonW(1, "none", 20) },
        trainer \in BOOLEAN }

InitBattleSystem ==
    /\ \E b \in SystemBattles :
        /\ battle = b
        /\ call = NoCallYet(b)
    /\ SessionIdle

\* the record of a battleSystem call: the argument's participants array is the
\* one updatedBattle holds, its log, turn and status are not written
SystemCall(fn, updatedBattle, who, action, byte) ==
    [NoCallYet(updatedBattle) EXCEPT
        !.n = call.n + 1, !.fn = fn, !.pre = battle,
        !.input = [battle EXCEPT !.participants = updatedBattle.participants],
        !.who = who, !.playerAction = action, !.byte = byte]

ExecuteAttackCall ==
    /\ call.n < MaxCalls
    /\ \E attackerIndex \in {1, 2}, moveId \in {"Tackle", "ThunderWave", "Surf"},
          isCritical \in BOOLEAN, roll \in Rolls :
        \E updatedBattle \in {executeAttack(battle, attackerIndex, moveId, isCritical, roll)} :
            /\ battle' = updatedBattle
            /\ call' = SystemCall("executeAttack", updatedBattle, attackerIndex,
                                  Fight(moveId), 0)
    /\ UNCHANGED <<sessionVars, serverVars>>

SwitchPokemonCall ==
    /\ call.n < MaxCalls
    /\ \E participantIndex \in {1, 2} :
        \E pokemonIndex \in 0..(Len(battle.participants[participantIndex].party) + 1) :
            \E updatedBattle \in {switchPokemon(battle, participantIndex, pokemonIndex)} :
                /\ battle' = updatedBattle
                /\ call' = SystemCall("switchPokemon", updatedBattle, participantIndex,
                                      Switch(pokemonIndex), 0)
    /\ UNCHANGED <<sessionVars, serverVars>>

\* random bytes around the escape odds of the battle
RunBytes(b) ==
    LET f == escapeOdds(b.participants[1].activePokemon.stats.speed,
                        b.participants[2].activePokemon.stats.speed)
    IN  {0, 255} \cup ({f - 1, f} \cap 0..255)

AttemptToRunCall ==
    /\ call.n < MaxCalls
    /\ \E participantIndex \in {1, 2}, randomValue \in RunBytes(battle) :
        \E updatedBattle \in {attemptToRun(battle, participantIndex, randomValue)} :
            /\ battle' = updatedBattle
            /\ call' = SystemCall("attemptToRun", updatedBattle, participantIndex,
                                  Run, randomValue)
    /\ UNCHANGED <<sessionVars, serverVars>>

NextBattleSystem == ExecuteAttackCall \/ SwitchPokemonCall

SpecBattleSystem == InitBattleSystem /\ [][NextBattleSystem]_vars

NextRun == ExecuteAttackCall \/ SwitchPokemonCall \/ AttemptToRunCall

SpecRun == InitBattleSystem /\ [][NextRun]_vars

----------------------------------------------------------------------------
(* SpecTerminal: the four battleSystem calls, also on a battle that ended  *)

UseItemCall ==
    /\ call.n < MaxCalls
    /\ \E userIndex \in {1, 2}, itemId \in {"potion", "rope"},
          targetPokemonIndex \in {0, 5} :
        \E updatedBattle \in {useItem(battle, userIndex, itemId, targetPokemonIndex)} :
            /\ battle' = updatedBattle
            /\ call' = SystemCall("useItem", updatedBattle, userIndex, Item, 0)
    /\ UNCHANGED <<sessionVars, serverVars>>

NextTerminal == ExecuteAttackCall \/ SwitchPokemonCall \/ AttemptToRunCall \/ UseItemCall

SpecTerminal == InitBattleSystem /\ [][NextTerminal]_vars

----------------------------------------------------------------------------
(* SpecLog: processTurn and the battleSystem calls on one battle           *)

NextLog == ProcessTurnCall \/ ExecuteAttackCall \/ SwitchPokemonCall \/ AttemptToRunCall

\* the battles of SystemBattles against an opponent at full HP
InitLog ==
    /\ InitBattleSystem
    /\ battle.participants[2].activePokemon.currentHp = 12

SpecLog == InitLog /\ [][NextLog]_vars

----------------------------------------------------------------------------
(* SpecSession: command requests of one session                            *)

BattleIdle ==
    LET b == startBattle(<<MonA(12, "none")>>, MonW(12, "none", 5))
    IN  /\ battle = b
        /\ call = [n |-> 0, pre |-> b, ret |-> b, input |-> b,
                   mid |-> b, loopEnd |-> b,
                   playerAction |-> NoAction, opponentAction |-> NoAction,
                   order |-> <<>>, fn |-> "", amount |-> 0, who |-> 0, byte |-> 0]

InitSession == SessionIdle /\ BattleIdle

NextSession == \E r \in Requests : HandleCommand(r) \/ ItemsLoaded(r)

SpecSession == InitSession /\ [][NextSession]_vars

----------------------------------------------------------------------------
(* SpecDamage: the two damage calculators on the same inputs               *)

\* attackers and defenders of the damage calculations
DamageAttackers ==
    { Mon("A", <<type>>, level, 12, 12, status, atk, 10, 10, <<>>)
        : type \in {"Normal", "Electric"}, level \in {1, 50},
          status \in {"none", "BRN"}, atk \in {1, 100} }

DamageDefenders ==
    { Mon("D", types, 5, 12, 12, "none", 10, def, 10, <<>>)
        : types \in {<<"Normal">>, <<"Ground">>, <<"Ghost">>, <<"Electric">>,
                     <<"Electric", "Ground">>},
          def \in {1, 200} }

DamageMoves == {"Tackle", "Thunderbolt", "ThunderWave"}

InitDamage ==
    /\ BattleIdle
    /\ SessionIdle

\* one calculation by each calculator: call.pre holds the arguments,
\* call.ret the two results
CalculateDamageCall ==
    /\ call.n = 0
    /\ \E attacker \in DamageAttackers, defender \in DamageDefenders,
          name \in DamageMoves, isCritical \in BOOLEAN, roll \in Rolls :
        call' = [call EXCEPT
                    !.n = call.n + 1,
                    !.fn = "calculateDamage",
                    !.pre = [attacker |-> attacker, defender |-> defender,
                             move |-> Mv(name, 5)],
                    !.ret = [battleManager |->
                                calculateDamage(attacker, defender, Mv(name, 5),
                                                isCritical, roll),
                             battleCalculations |->
                                battleCalculationsDamage(attacker, defender, Mv(name, 5),
                                                         isCritical, roll)]]
    /\ UNCHANGED battle
    /\ UNCHANGED <<sessionVars, serverVars>>

NextDamage == CalculateDamageCall

SpecDamage == InitDamage /\ [][NextDamage]_vars

----------------------------------------------------------------------------
(* Properties of processTurn                                               *)

Called == call.n > 0 /\ call.fn = "processTurn"
WasWaiting == Called /\ call.pre.status = "WAITING_FOR_INPUT"

\* status, turn counter, log and every creature (HP, PP, status condition,
\* active creature) are the same in two battle states
SameBattle(a, b) ==
    /\ a.status = b.status
    /\ a.turn = b.turn
    /\ a.log = b.log
    /\ a.participants = b.participants

\* the participant has a fainted active creature and a party member with HP left
MustSwitch(p) ==
    /\ p.activePokemon.currentHp <= 0
    /\ \E i \in 1..Len(p.party) : p.party[i].currentHp > 0

\* a SWITCH target that is inside the party, not the active creature, not fainted
ValidSwitch(p, i) ==
    /\ i \in 1..Len(p.party)
    /\ p.party[i].instanceId # p.activePokemon.instanceId
    /\ p.party[i].currentHp > 0

\* f = floor(fleerSpeed * 128 / opponentSpeed + 30) mod 256
FleeThreshold(b) ==
    ((b.participants[1].activePokemon.calculatedStats.speed * 128)
        \div b.participants[2].activePokemon.calculatedStats.speed + 30) % 256

\* C1: after a processTurn call on a battle that was awaiting input, a side
\* whose whole party is at 0 HP in the returned state means the returned
\* status is PLAYER_WIN or OPPONENT_WIN.
C1_TerminalWhenPartyFainted ==
    (WasWaiting /\ (AllFainted(call.ret.participants[1])
                    \/ AllFainted(call.ret.participants[2])))
        => call.ret.status \in {"PLAYER_WIN", "OPPONENT_WIN"}

\* C2: processTurn on a battle whose status is not WAITING_FOR_INPUT returns
\* a state with the same status, turn counter, log, HP and PP as its input.
C2_RejectedWhenNotWaiting ==
    (Called /\ call.pre.status # "WAITING_FOR_INPUT")
        => SameBattle(call.ret, call.pre)

\* C3: a FIGHT naming a move the actor's active creature does not know, or a
\* move with pp 0, makes processTurn return the battle state unchanged.
C3_InvalidFightRejected ==
    LET mon == call.pre.participants[1].activePokemon
        mi == FindMove(mon, call.playerAction.moveId)
    IN  (WasWaiting /\ call.playerAction.type = "FIGHT"
            /\ (mi = 0 \/ mon.moves[mi].pp <= 0))
        => SameBattle(call.ret, call.pre)

\* C4: a participant whose active creature has 0 HP while another party member
\* has HP left may only SWITCH: its FIGHT, ITEM or RUN is rejected with the
\* state unchanged.
C4_FaintedMustSwitch ==
    (WasWaiting /\ MustSwitch(call.pre.participants[1])
        /\ call.playerAction.type \in {"FIGHT", "ITEM", "RUN"})
        => SameBattle(call.ret, call.pre)

\* C5: a state returned by processTurn for a battle that was awaiting input
\* never has status PROCESSING: it is WAITING_FOR_INPUT, PLAYER_WIN,
\* OPPONENT_WIN or FLED.
C5_ProcessingNeverReturned ==
    WasWaiting => call.ret.status \in {"WAITING_FOR_INPUT", "PLAYER_WIN",
                                       "OPPONENT_WIN", "FLED"}

\* an actor acted (the status went through PROCESSING) and the call handed
\* the battle back for input
C5_Witness ==
    /\ WasWaiting
    /\ call.ret.status = "WAITING_FOR_INPUT"
    /\ call.ret.log[Len(call.ret.log)] = "waiting"
    /\ Len(call.ret.log) > Len(call.pre.log) + 3

\* C6: processTurn does not mutate the battle state passed to it: after the
\* call the argument (log, participants, HP, status conditions, PP) is as it
\* was before the call.
C6_InputNotMutated ==
    Called => SameBattle(call.input, call.pre)

\* C8: a valid SWITCH resolved by processTurn makes the party member at the
\* target index the participant's active creature.
C8_SwitchChangesActive ==
    LET p == call.pre.participants[1]
    IN  (WasWaiting /\ call.playerAction.type = "SWITCH"
            /\ ValidSwitch(p, call.playerAction.switchToPokemonIndex)
            /\ p.activePokemon.statusCondition # "PAR")
        => call.ret.participants[1].activePokemon.instanceId
              = p.party[call.playerAction.switchToPokemonIndex].instanceId

\* C9: RUN submitted by the player in a wild battle ends the battle with
\* status FLED when the random byte is below f.  The byte 0 is below f
\* whenever f > 0, and the RUN case reads no random value, so its outcome is
\* the outcome for byte 0.
C9_RunFlees ==
    (WasWaiting /\ call.playerAction.type = "RUN"
        /\ Len(call.pre.participants[2].party) = 1
        /\ call.pre.participants[1].activePokemon.currentHp > 0
        /\ call.pre.participants[1].activePokemon.statusCondition # "PAR"
        /\ FleeThreshold(call.pre) > 0)
        => call.ret.status = "FLED"

\* C10: when the player submits SWITCH or RUN and the opponent FIGHT, the
\* player's action is the first one the turn resolves, whatever the speeds.
C10_SwitchRunFirst ==
    (WasWaiting /\ call.playerAction.type \in {"SWITCH", "RUN"}
        /\ call.opponentAction.type = "FIGHT")
        => call.order[1] = 1

----------------------------------------------------------------------------
(* SpecCaptureRate: the capture probability over the current HP of a target *)

CaptureMaxHps == {2, 12, 20}
CaptureCatchRates == {<<>>, <<1>>, <<3>>, <<45>>, <<255>>}
CaptureBalls == {"pokeball", "greatball", "ultraball", "masterball"}
CaptureStatuses == {"undefined", "PAR", "SLP"}

\* a target of the capture calculators
CaptureTarget(maxHp, currentHp, catchRate, statusCondition) ==
    [maxHp |-> maxHp, currentHp |-> currentHp, catchRate |-> catchRate,
     statusCondition |-> statusCondition, calculatedStats |-> [hp |-> maxHp]]

InitCaptureRate == BattleIdle /\ SessionIdle

\* the two calculators on one target at every current HP from 0 to its max HP:
\* call.pre holds the arguments, call.ret the probabilities times 255
CaptureRateCall ==
    /\ call.n = 0
    /\ \E maxHp \in CaptureMaxHps, catchRate \in CaptureCatchRates,
          ballType \in CaptureBalls, statusCondition \in CaptureStatuses :
        call' = [call EXCEPT
                    !.n = call.n + 1,
                    !.fn = "calculateCaptureRate",
                    !.pre = [maxHp |-> maxHp, catchRate |-> catchRate,
                             ballType |-> ballType, statusCondition |-> statusCondition],
                    !.ret = [attemptCapture |->
                                [hp \in 0..maxHp |->
                                    attemptCaptureRate255(
                                        CaptureTarget(maxHp, hp, catchRate, statusCondition),
                                        ballType)],
                             calculateCatchRate |->
                                [hp \in 0..maxHp |->
                                    calculateCatchRate255(
                                        CaptureTarget(maxHp, hp, catchRate, statusCondition),
                                        ballCaptureBonuses2(ballType))]]]
    /\ UNCHANGED <<battle, sessionVars, serverVars>>

NextCaptureRate == CaptureRateCall

SpecCaptureRate == InitCaptureRate /\ [][NextCaptureRate]_vars

----------------------------------------------------------------------------
(* SpecCapture: attemptCapture calls of one player, each result merged into *)
(* the player state                                                        *)

\* a wild creature at full HP
WildTarget(pokedexId) ==
    [pokedexId |-> pokedexId, maxHp |-> 12, currentHp |-> 12, catchRate |-> <<45>>,
     statusCondition |-> "undefined", calculatedStats |-> [hp |-> 12]]

\* the battle attemptCapture is given: against one wild creature, or against a
\* party of two
CaptureBattles ==
    { [participants |-> << [party |-> <<>>],
                           [party |-> opp, activePokemon |-> opp[1]] >>] :
        opp \in { <<WildTarget("Y0004")>>, <<WildTarget("Y0007")>>,
                  <<WildTarget("Y0004"), WildTarget("Y0007")>> } }

\* a player with the starter and `captured` creatures of one species caught
\* since, and the balls left
CapturePlayer(captured, pokeballs, masterballs) ==
    [team  |-> [i \in 1..Min(6, 1 + captured) |->
                    IF i = 1 THEN WildTarget("Y0001") ELSE WildTarget("Y0004")],
     pcBox |-> [i \in 1..Max(0, captured - 5) |-> WildTarget("Y0004")],
     inventory |-> << [itemId |-> "potion", quantity |-> 3],
                      [itemId |-> "pokeball", quantity |-> pokeballs] >>
                   \o (IF masterballs > 0
                       THEN << [itemId |-> "masterball", quantity |-> masterballs] >>
                       ELSE <<>>),
     pokedex |-> IF captured = 0
                 THEN [seen |-> <<"Y0001">>, caught |-> <<"Y0001">>]
                 ELSE [seen |-> <<"Y0001", "Y0004">>, caught |-> <<"Y0001", "Y0004">>],
     currentBattle |-> "battle"]

InitCapture ==
    /\ BattleIdle
    /\ ServerIdle
    /\ cachedItems = FALSE
    /\ req = [r \in Requests |-> [pc |-> "idle", cmd |-> NoCommand,
                                  playerState |-> createNewPlayer]]
    /\ acked = [i \in {"potion", "pokeball"} |-> 0]
    /\ \E captured \in {0, 4, 5}, pokeballs \in {1, 2}, masterballs \in {0, 1} :
          gameStates = CapturePlayer(captured, pokeballs, masterballs)

\* one attemptCapture call; the caller keeps { ...playerState, ...updatedPlayerState }
AttemptCaptureCall ==
    /\ call.n < MaxCalls
    /\ \E b \in CaptureBattles, ballType \in {"pokeball", "greatball", "masterball"},
          randomValue255 \in {0, 20} :
        LET result == attemptCapture(b, gameStates, ballType, randomValue255)
        IN  /\ call' = [call EXCEPT
                          !.n = call.n + 1,
                          !.fn = "attemptCapture",
                          !.pre = [battle |-> b, playerState |-> gameStates,
                                   ballType |-> ballType],
                          !.ret = result]
            /\ gameStates' = mergePlayerState(gameStates, result.updatedPlayerState)
    /\ UNCHANGED <<battle, cachedItems, req, acked, serverVars>>

NextCapture == AttemptCaptureCall

SpecCapture == InitCapture /\ [][NextCapture]_vars

----------------------------------------------------------------------------
(* Properties of the action loop of processTurn                            *)

\* the action participant idx submitted in the last call
ActionOf(idx) == IF idx = 1 THEN call.playerAction ELSE call.opponentAction

\* the battle as it was when the k-th actor of the last call came up, and as
\* it was when that actor's iteration was over
StepBefore(k) == IF k = 1 THEN call.pre ELSE call.mid
StepAfter(k) == IF k = 1 THEN call.mid ELSE call.loopEnd

\* the k-th iteration pushed the log line with this text
StepLogged(k, text) ==
    \E j \in (Len(StepBefore(k).log) + 1)..Len(StepAfter(k).log) :
        StepAfter(k).log[j] = text

\* twice the effective speed: the speed stat, halved under paralysis
EffectiveSpeed2(mon) ==
    IF mon.statusCondition = "PAR" THEN mon.calculatedStats.speed
    ELSE 2 * mon.calculatedStats.speed

BothFight ==
    Called /\ call.playerAction.type = "FIGHT" /\ call.opponentAction.type = "FIGHT"

\* C11: when both sides submit FIGHT the side whose active creature has the
\* strictly higher effective speed (speed, halved when paralyzed) acts first,
\* and with equal effective speeds participant 0 (the player) acts first.
C11_FasterActsFirst ==
    BothFight =>
        LET ps == EffectiveSpeed2(call.pre.participants[1].activePokemon)
            os == EffectiveSpeed2(call.pre.participants[2].activePokemon)
        IN  /\ ps > os => call.order = <<1, 2>>
            /\ os > ps => call.order = <<2, 1>>
            /\ ps = os => call.order = <<1, 2>>

\* both FIGHT, a paralyzed player creature whose halved speed equals the
\* opponent's speed, and the player acted first
C11_Witness ==
    /\ BothFight
    /\ call.pre.participants[1].activePokemon.statusCondition = "PAR"
    /\ EffectiveSpeed2(call.pre.participants[1].activePokemon)
          = EffectiveSpeed2(call.pre.participants[2].activePokemon)
    /\ call.order = <<1, 2>>
    /\ StepLogged(1, "used") /\ StepLogged(2, "used")

\* the k-th actor's creature was at 0 HP when its FIGHT came up
FaintedFighter(k) ==
    /\ Called
    /\ ActionOf(call.order[k]).type = "FIGHT"
    /\ StepBefore(k).participants[call.order[k]].activePokemon.currentHp <= 0

\* the k-th iteration changed no pp of the actor and neither HP nor status
\* condition of the target
NoFight(k) ==
    LET a == call.order[k]
        t == 3 - call.order[k]
    IN  /\ StepAfter(k).participants[a].activePokemon.moves
              = StepBefore(k).participants[a].activePokemon.moves
        /\ StepAfter(k).participants[a].party = StepBefore(k).participants[a].party
        /\ StepAfter(k).participants[t].activePokemon
              = StepBefore(k).participants[t].activePokemon
        /\ StepAfter(k).participants[t].party = StepBefore(k).participants[t].party
        /\ ~StepLogged(k, "used")

\* C12: an actor whose active creature has currentHp 0 when its action comes
\* up (fainted in an earlier turn, or knocked out by the faster actor in the
\* same turn) performs no FIGHT: no pp is decremented, the target's HP and
\* status condition are unchanged by it.
C12_FaintedActorSkipped ==
    \A k \in {1, 2} : FaintedFighter(k) => NoFight(k)

\* the slower actor had HP left when the turn began, was knocked out by the
\* faster actor's move and its own FIGHT (a known move with pp left) came up
C12_Witness ==
    /\ FaintedFighter(2)
    /\ call.pre.participants[call.order[2]].activePokemon.currentHp > 0
    /\ StepLogged(1, "used")
    /\ LET mon == call.mid.participants[call.order[2]].activePokemon
           mi == FindMove(mon, ActionOf(call.order[2]).moveId)
       IN  mi > 0 /\ mon.moves[mi].pp > 0

\* the pp of the moves of a creature, in the order of its move list
PpOf(mon) == [i \in 1..Len(mon.moves) |-> mon.moves[i].pp]

\* the k-th actor's FIGHT cannot be executed: not a FIGHT, a fainted or fully
\* paralyzed actor, an unknown move or a move without pp
Blocked(k) ==
    LET mon == StepBefore(k).participants[call.order[k]].activePokemon
        mi == FindMove(mon, ActionOf(call.order[k]).moveId)
    IN  \/ ActionOf(call.order[k]).type # "FIGHT"
        \/ mon.currentHp <= 0
        \/ StepLogged(k, "fully paralyzed")
        \/ mi = 0
        \/ mon.moves[mi].pp <= 0

\* what the k-th iteration did to the pp of both active creatures
PpStep(k) ==
    LET a == call.order[k]
        t == 3 - call.order[k]
        before == StepBefore(k).participants[a].activePokemon
        after == StepAfter(k).participants[a].activePokemon
        mi == FindMove(before, ActionOf(a).moveId)
        executed == StepLogged(k, "used")
    IN  /\ Blocked(k) => ~executed
        /\ executed => PpOf(after) = [PpOf(before) EXCEPT ![mi] = @ - 1]
        /\ ~executed => PpOf(after) = PpOf(before)
        /\ PpOf(StepAfter(k).participants[t].activePokemon)
              = PpOf(StepBefore(k).participants[t].activePokemon)

NoNegativePp(b) ==
    \A i \in {1, 2} :
        /\ \A m \in 1..Len(b.participants[i].activePokemon.moves) :
              b.participants[i].activePokemon.moves[m].pp >= 0
        /\ \A j \in 1..Len(b.participants[i].party) :
              \A m \in 1..Len(b.participants[i].party[j].moves) :
                 b.participants[i].party[j].moves[m].pp >= 0

\* C13: over any sequence of processTurn calls each executed FIGHT lowers the
\* pp of the used move by exactly 1 and leaves every other pp unchanged, a
\* FIGHT that is not executed (actor fainted, fully paralyzed, unknown move,
\* pp 0) changes no pp, and no pp is ever negative.
C13_PpAccounting ==
    /\ NoNegativePp(battle)
    /\ Called => (PpStep(1) /\ PpStep(2) /\ NoNegativePp(call.mid)
                  /\ NoNegativePp(call.loopEnd))

\* in one call the player's FIGHT named a move whose pp was used up by an
\* earlier call and the opponent's FIGHT was executed
C13_Witness ==
    /\ call.n = 2
    /\ call.playerAction.type = "FIGHT"
    /\ LET mon == call.pre.participants[1].activePokemon
           mi == FindMove(mon, call.playerAction.moveId)
       IN  mi > 0 /\ mon.moves[mi].pp = 0 /\ mon.currentHp > 0
    /\ \E k \in {1, 2} : call.order[k] = 2 /\ StepLogged(k, "used")

\* 0 <= currentHp <= maxHp
HpInRange(mon) == 0 <= mon.currentHp /\ mon.currentHp <= mon.maxHp

AllHpInRange(b) ==
    \A i \in {1, 2} :
        /\ HpInRange(b.participants[i].activePokemon)
        /\ \A j \in 1..Len(b.participants[i].party) : HpInRange(b.participants[i].party[j])

C16_NoStatusThroughImmunity ==
    Called =>
        \A k \in {1, 2} :
            LET a == call.order[k]
                t == 3 - call.order[k]
                target == StepBefore(k).participants[t].activePokemon
            IN  (/\ ActionOf(a).type = "FIGHT"
                 /\ StepLogged(k, "used")
                 /\ getTypeEffectiveness(MoveData(ActionOf(a).moveId).type, target.types) = 0)
                => StepAfter(k).participants[t].activePokemon.statusCondition
                      = target.statusCondition

\* the damage is a non-negative number, at least 1 when the move's type has an
\* effect on the defender (eff4 > 0, in quarters) and 0 when it has none
DamageFitsEffectiveness(damage, eff4) ==
    /\ damage >= 0
    /\ eff4 > 0 => damage >= 1
    /\ eff4 = 0 => damage = 0

\* C15: for a damaging move the damage computed by each damage calculator
\* (battleManager.calculateDamage and the battleCalculations calculateDamage)
\* is a non-negative integer, at least 1 when the type effectiveness is
\* greater than 0 and exactly 0 when it is 0.
C15_DamageFloorAndImmunity ==
    (call.fn = "calculateDamage" /\ MoveData(call.pre.move.name).power > 0) =>
        LET eff4 == getTypeEffectiveness(MoveData(call.pre.move.name).type,
                                         call.pre.defender.types)
        IN  /\ DamageFitsEffectiveness(call.ret.battleManager.damage, eff4)
            /\ DamageFitsEffectiveness(call.ret.battleCalculations.damage, eff4)

\* HP a creature loses to its status condition at the end of a turn
StatusLoss(mon) ==
    IF mon.statusCondition = "PSN" THEN Max(1, mon.maxHp \div 8)
    ELSE IF mon.statusCondition = "BRN" THEN Max(1, mon.maxHp \div 16)
    ELSE 0

\* the end of the turn took the creature's status damage, and nothing from a
\* creature at 0 HP
TookStatusDamage(before, after) ==
    IF before.currentHp > 0
    THEN before.statusCondition \in {"PSN", "BRN"}
            => after.currentHp = Max(0, before.currentHp - StatusLoss(before))
    ELSE after.currentHp = before.currentHp

\* C17: at the end of a processTurn call in which the battle has not reached
\* a terminal status, every creature of either party that has HP left and is
\* poisoned loses max(1, floor(maxHp/8)) HP, every such burned creature loses
\* max(1, floor(maxHp/16)) HP (floored at 0), creatures at 0 HP lose nothing,
\* and if no side is then entirely fainted the status returned is
\* WAITING_FOR_INPUT.
C17_EndOfTurnStatusDamage ==
    (WasWaiting /\ call.loopEnd.status \in {"PROCESSING", "WAITING_FOR_INPUT"}) =>
        /\ \A i \in {1, 2} :
            /\ TookStatusDamage(call.loopEnd.participants[i].activePokemon,
                                call.ret.participants[i].activePokemon)
            /\ \A j \in 1..Len(call.loopEnd.participants[i].party) :
                  TookStatusDamage(call.loopEnd.participants[i].party[j],
                                   call.ret.participants[i].party[j])
        /\ (~AllFainted(call.ret.participants[1]) /\ ~AllFainted(call.ret.participants[2]))
              => call.ret.status = "WAITING_FOR_INPUT"

\* the experience group addExperience resolves for the creature
ExperienceGroupOf(instance) ==
    IF SpeciesData(instance.pokedexId).experienceGroup # ""
    THEN getExperienceGroupFromString(SpeciesData(instance.pokedexId).experienceGroup)
    ELSE getExperienceGroupForPokemon(instance.pokedexId)

\* C20: addExperience terminates and, for a non-negative amount, returns with
\* level <= 100 and either level = 100 or xp below the total for the next
\* level; the level never decreases and a creature at level 100 is left
\* unchanged.
C20_AddExperienceLevels ==
    call.fn = "addExperience" =>
        LET before == call.pre.participants[1].activePokemon
            after == call.ret.participants[1].activePokemon
        IN  /\ after.level <= 100
            /\ \/ after.level = 100
               \/ after.xp < getTotalExperienceForLevel(ExperienceGroupOf(after),
                                                        after.level + 1)
            /\ after.level >= before.level
            /\ before.level = 100 => after = before

\* one call took a creature from level 50 through every level up to 100
C20_Witness ==
    /\ call.fn = "addExperience"
    /\ call.pre.participants[1].activePokemon.level = 50
    /\ call.ret.participants[1].activePokemon.level = 100
    /\ call.amount > 0

\* party indices of the participant's creature that is on the field
ActiveIndices(p) ==
    { i \in 1..Len(p.party) : p.party[i].instanceId = p.activePokemon.instanceId }

\* C18: switchPokemon rejects a SWITCH whose target index is the party index
\* of the participant's currently active creature and returns the battle
\* state unchanged (same active creature, turn counter, log and status), in
\* every battle state reachable by switchPokemon and executeAttack calls.
C18_SwitchToActiveRejected ==
    (/\ call.fn = "switchPokemon"
     /\ call.playerAction.switchToPokemonIndex
           \in ActiveIndices(call.pre.participants[call.who]))
    => SameBattle(call.ret, call.pre)

\* the speeds attemptToRun reads: the stats record of the two creatures on
\* the field
RunSum(b) ==
    (b.participants[1].activePokemon.stats.speed * 128)
        \div b.participants[2].activePokemon.stats.speed + 30

GrownBefore == call.pre.participants[1].activePokemon
GrownAfter == call.ret.participants[1].activePokemon
LevelRaised ==
    /\ call.fn \in {"addExperience", "pokemonUtils.addExperience"}
    /\ GrownAfter.level > GrownBefore.level

\* C21: whenever an addExperience call (of pokemonManager or of pokemonUtils)
\* raises the level of a creature at least once, the creature's currentHp on
\* return equals its new maxHp, whatever its HP was before the call.
C21_LevelUpRestoresHp ==
    LevelRaised => GrownAfter.currentHp = GrownAfter.maxHp

\* the stored derived stats of a creature are those calculateStats gives for
\* its stored level, IVs, EVs and nature
StatsCurrent(c) ==
    /\ c.calculatedStats = calculateStats(c, SpeciesData(c.pokedexId))
    /\ c.maxHp = calculateStats(c, SpeciesData(c.pokedexId)).hp

MoveNames(moves) == { moves[i].name : i \in 1..Len(moves) }
LearnedUpTo(learned, level) ==
    SelectSeq(learned, LAMBDA entry : entry.level_learned_at <= level)
MostRecentNames(learned, level) ==
    { LastFour(LearnedUpTo(learned, level))[i].name
        : i \in 1..Len(LastFour(LearnedUpTo(learned, level))) }

\* C22: after createPokemonInstance and any sequence of level-ups a creature
\* knows at most 4 moves, and a move learned while 4 are known evicts the one
\* learned earliest, so that the list consists of the most recently learned
\* moves.
C22_MostRecentMoves ==
    LET c == battle.participants[1].activePokemon
    IN  /\ Len(c.moves) <= 4
        /\ MoveNames(c.moves) = MostRecentNames(SpeciesData(c.pokedexId).learned, c.level)

RateCalled == call.fn = "calculateCaptureRate"

\* the value a of the capture formula for the arguments of the call at a
\* current HP, with the catch rate the entry states (45 without one)
CaptureA(hp) ==
    LET rate == IF call.pre.catchRate = <<>> THEN 45 ELSE call.pre.catchRate[1]
    IN  ((3 * call.pre.maxHp - 2 * hp) * rate * ballCaptureBonuses2(call.pre.ballType)
            * statusCaptureBonuses2(call.pre.statusCondition)) \div (12 * call.pre.maxHp)

\* C24: the capture probability attemptCapture uses is min(255, max(1, a)) / 255
\* with a = floor(((3 maxHp - 2 currentHp) catchRate ballModifier statusModifier)
\* / (3 maxHp)); for 0 <= currentHp <= maxHp it is never below 1/255 and never
\* above 1.
C24_CaptureProbability ==
    RateCalled =>
        \A hp \in 0..call.pre.maxHp :
            /\ call.ret.attemptCapture[hp] = Min(255, Max(1, CaptureA(hp)))
            /\ call.ret.attemptCapture[hp] >= 1
            /\ call.ret.attemptCapture[hp] <= 255

\* the probabilities of one calculator never increase with the current HP
NonIncreasing(prob) ==
    \A hp \in 1..(call.pre.maxHp - 1) : prob[hp + 1] <= prob[hp]

Calculators == {"attemptCapture", "calculateCatchRate"}

\* C25 as stated: with max HP, catch rate, ball and status fixed, the
\* capture probability never increases as the current HP goes from 1 to max
\* HP, and it is strictly higher at 1 HP than at full HP.
C25_AsStated ==
    RateCalled =>
        \A f \in Calculators :
            /\ NonIncreasing(call.ret[f])
            /\ call.ret[f][1] > call.ret[f][call.pre.maxHp]

\* C25: with max HP, catch rate, ball and status fixed, the capture
\* probability never increases as the current HP goes from 1 to max HP, and
\* it is strictly higher at 1 HP than at full HP whenever the value a at full
\* HP is at least 1 and below 255.
C25_CaptureMonotone ==
    RateCalled =>
        \A f \in Calculators :
            /\ NonIncreasing(call.ret[f])
            /\ (CaptureA(call.pre.maxHp) >= 1 /\ CaptureA(call.pre.maxHp) < 255)
                  => call.ret[f][1] > call.ret[f][call.pre.maxHp]

\* a target whose probability falls from 1 HP to full HP, by both calculators
C25_Witness ==
    /\ RateCalled
    /\ CaptureA(call.pre.maxHp) >= 1
    /\ CaptureA(call.pre.maxHp) < 255
    /\ \A f \in Calculators : call.ret[f][1] > call.ret[f][call.pre.maxHp]
    /\ call.ret.attemptCapture[1] < 255

\* the call was rejected: not a wild battle, or no ball of the named type
CaptureRejected ==
    \/ Len(call.pre.battle.participants[2].party) # 1
    \/ \A i \in 1..Len(call.pre.playerState.inventory) :
            call.pre.playerState.inventory[i].itemId # call.pre.ballType

\* how many of the item the inventory holds, over all its entries
RECURSIVE Held(_, _)
Held(inventory, itemId) ==
    IF inventory = <<>> THEN 0
    ELSE (IF Head(inventory).itemId = itemId THEN Head(inventory).quantity ELSE 0)
            + Held(Tail(inventory), itemId)

\* C38: every attemptCapture call that is not rejected lowers the quantity of
\* the used ball by exactly 1 whether the capture succeeds or fails, removing
\* the entry at 0 so that no inventory entry has a quantity below 1; a
\* rejected call returns no inventory change, and no capture succeeds without
\* a ball of the named type in the inventory.
C38_BallSpent ==
    /\ \A i \in 1..Len(gameStates.inventory) : gameStates.inventory[i].quantity >= 1
    /\ (call.n > 0 /\ call.fn = "attemptCapture") =>
          LET before == call.pre.playerState.inventory
              after  == gameStates.inventory
          IN  IF CaptureRejected
              THEN /\ call.ret.updatedPlayerState = <<>>
                   /\ ~ call.ret.success
                   /\ after = before
              ELSE /\ call.ret.updatedPlayerState.inventory = after
                   /\ \A itemId \in {"potion", "pokeball", "greatball", "masterball"} :
                         Held(after, itemId) =
                            Held(before, itemId) - (IF itemId = call.pre.ballType THEN 1 ELSE 0)

\* a failed capture with the player's last ball of the type: the entry is gone
C38_Witness ==
    /\ call.n > 0 /\ call.fn = "attemptCapture"
    /\ ~ CaptureRejected
    /\ ~ call.ret.success
    /\ Held(call.pre.playerState.inventory, call.pre.ballType) = 1
    /\ \A i \in 1..Len(gameStates.inventory) :
            gameStates.inventory[i].itemId # call.pre.ballType

----------------------------------------------------------------------------
(* SpecStart: one startBattle call on a party and an opponent              *)

\* startBattle(playerId, playerName, playerParty, opponentPokemon): it throws
\* for an empty party and for a party without a creature that has HP left
StartBattleCall ==
    /\ call.n = 0
    /\ \E len \in 0..3 :
       \E playerParty \in [1..len -> {MonA(0, "none"), MonA(12, "none"), MonB}],
          opponentPokemon \in {MonW(0, "none", 5), MonW(1, "none", 5), MonW(12, "PSN", 20)} :
        call' = [call EXCEPT
                    !.n = 1,
                    !.fn = "startBattle",
                    !.pre = [playerParty |-> playerParty,
                             opponentPokemon |-> opponentPokemon],
                    !.ret = IF CanStartBattle(playerParty)
                            THEN [threw |-> FALSE,
                                  battle |-> startBattle(playerParty, opponentPokemon)]
                            ELSE [threw |-> TRUE, battle |-> battle]]
    /\ UNCHANGED <<battle, sessionVars, serverVars>>

NextStart == StartBattleCall

SpecStart == InitSession /\ [][NextStart]_vars

\* a roster that is empty or has every member at 0 HP
NoneStanding(roster) == \A i \in 1..Len(roster) : roster[i].currentHp <= 0

\* C27: startBattle fails with an error whenever a side's roster is empty or
\* has every member at 0 HP, and otherwise returns a battle with status
\* WAITING_FOR_INPUT, turn 1, and on each side an active creature that belongs
\* to that side's party and has currentHp > 0.
C27_StartBattleChecksBothSides ==
    (call.n > 0 /\ call.fn = "startBattle") =>
        IF NoneStanding(call.pre.playerParty) \/ NoneStanding(<<call.pre.opponentPokemon>>)
        THEN call.ret.threw
        ELSE /\ ~ call.ret.threw
             /\ call.ret.battle.status = "WAITING_FOR_INPUT"
             /\ call.ret.battle.turn = 1
             /\ \A i \in 1..2 :
                  LET p == call.ret.battle.participants[i]
                  IN  /\ \E j \in 1..Len(p.party) : p.party[j] = p.activePokemon
                      /\ p.activePokemon.currentHp > 0

----------------------------------------------------------------------------
(* SpecEncounter: one generateWildPokemon call at a location               *)

\* the draws of one call: the location, Math.random() * totalWeight in halves,
\* the level's Math.random() in eighths
GenerateWildPokemonCall ==
    /\ call.n = 0
    /\ \E locationId \in {"route_yr01_start", "route_yr02", "cave_closed",
                          "beginville_square"} :
       \E total \in { IF getLocationEncounter(locationId) = <<>> THEN 0
                      ELSE totalWeight(getLocationEncounter(locationId)[1].wildPokemon) } :
       \E randomValue2 \in 0..Max(0, 2 * total - 1), random8 \in 0..7 :
        call' = [call EXCEPT
                    !.n = 1,
                    !.fn = "generateWildPokemon",
                    !.pre = [locationId |-> locationId, randomValue2 |-> randomValue2,
                             random8 |-> random8],
                    !.ret = [selected |-> selectWildPokemon(locationId, randomValue2),
                             creature |-> generateWildPokemon(
                                              locationId, randomValue2, random8,
                                              Options("W", "hardy", 0, "", <<>>))]]
    /\ UNCHANGED <<battle, sessionVars, serverVars>>

NextEncounter == GenerateWildPokemonCall

SpecEncounter == InitSession /\ [][NextEncounter]_vars

Generated == call.n > 0 /\ call.fn = "generateWildPokemon"

\* twice the cumulative weight of the first k entries of a table
RECURSIVE CumulativeWeight2(_, _)
CumulativeWeight2(table, k) ==
    IF k = 0 THEN 0 ELSE CumulativeWeight2(table, k - 1) + 2 * table[k].weight

\* the encounter table of the call's location, <<>> when it has none
TableOfCall ==
    LET found == { i \in 1..Len(encounterData) :
                     encounterData[i].locationId = call.pre.locationId }
    IN  IF found = {} THEN <<>> ELSE encounterData[The(found)].wildPokemon

\* C28: selectWildPokemon returns an entry of the location's encounter table,
\* the first whose cumulative weight meets or exceeds the draw d in
\* [0, total weight); generateWildPokemon gives a creature of that species an
\* integer level within the entry's [min, max]; for a location with no
\* encounter table (or an empty one) no creature is produced.
C28_WeightedSelection ==
    Generated =>
        IF TableOfCall = <<>>
        THEN call.ret.selected = <<>> /\ call.ret.creature = <<>>
        ELSE \E k \in 1..Len(TableOfCall) :
                /\ call.ret.selected = << TableOfCall[k] >>
                /\ CumulativeWeight2(TableOfCall, k) >= call.pre.randomValue2
                /\ \A j \in 1..(k - 1) :
                        CumulativeWeight2(TableOfCall, j) < call.pre.randomValue2
                /\ Len(call.ret.creature) = 1
                /\ call.ret.creature[1].pokedexId = TableOfCall[k].pokedexId
                /\ call.ret.creature[1].level \in
                        TableOfCall[k].levelRange[1]..TableOfCall[k].levelRange[2]

\* a draw equal to the cumulative weight of the first entry selects it, and
\* the creature gets the highest level of the entry's range
C28_Witness ==
    /\ Generated
    /\ call.pre.locationId = "route_yr01_start"
    /\ call.pre.randomValue2 = 90
    /\ call.ret.selected[1].pokedexId = "Y0004"
    /\ call.ret.creature[1].level = 5

----------------------------------------------------------------------------
(* SpecStats: one calculateStats call                                      *)

\* calculateStats on an instance with the same IV and EV in every stat, of a
\* species with the same base value in every stat
CalculateStatsCall ==
    /\ call.n = 0
    /\ \E level \in {1, 5, 50, 100}, base \in {1, 45, 255}, iv \in {0, 15, 31},
          ev \in {0, 3, 4, 252}, natureId \in {"hardy", "adamant", "timid"} :
        call' = [call EXCEPT
                    !.n = 1,
                    !.fn = "calculateStats",
                    !.pre = [level |-> level, base |-> base, iv |-> iv, ev |-> ev,
                             natureId |-> natureId],
                    !.ret = calculateStats(
                                [level |-> level, natureId |-> natureId,
                                 ivs |-> SameIvs(iv), evs |-> SameIvs(ev)],
                                [stats |-> [hp |-> base, attack |-> base,
                                            defense |-> base, sp_attack |-> base,
                                            sp_defense |-> base, speed |-> base]])]
    /\ UNCHANGED <<battle, sessionVars, serverVars>>

NextStats == CalculateStatsCall

SpecStats == InitSession /\ [][NextStats]_vars

StatsCalled == call.n > 0 /\ call.fn = "calculateStats"

\* r = floor(p / q) for q > 0
IsFloor(r, p, q) == q * r <= p /\ p < q * (r + 1)

\* the nature multiplier of a stat, in tenths
NatureTenths(natureId, stat) ==
    IF <<natureId, stat>> \in {<<"adamant", "attack">>, <<"timid", "speed">>} THEN 11
    ELSE IF <<natureId, stat>> \in {<<"adamant", "spAttack">>, <<"timid", "attack">>} THEN 9
    ELSE 10

\* C29: for level 1-100, IVs 0-31, EVs 0-252 and a nature, calculateStats
\* returns HP = floor(((2 base + iv + floor(ev/4)) level) / 100) + level + 10
\* and every other stat = floor((floor(((2 base + iv + floor(ev/4)) level) / 100)
\* + 5) m) with m = 1.1, 0.9 or 1.0 by the nature, each result at least 1;
\* level 5, base HP 45, IV 0, EV 0 gives HP 19.
C29_StatFormula ==
    StatsCalled =>
        \E e \in 0..63, q \in 0..700 :
            /\ IsFloor(e, call.pre.ev, 4)
            /\ IsFloor(q, (2 * call.pre.base + call.pre.iv + e) * call.pre.level, 100)
            /\ call.ret.hp = q + call.pre.level + 10
            /\ call.ret.hp >= 1
            /\ \A stat \in {"attack", "defense", "spAttack", "spDefense", "speed"} :
                  /\ IsFloor(call.ret[stat],
                             (q + 5) * NatureTenths(call.pre.natureId, stat), 10)
                  /\ call.ret[stat] >= 1
            /\ (call.pre.level = 5 /\ call.pre.base = 45 /\ call.pre.iv = 0
                    /\ call.pre.ev = 0) => call.ret.hp = 19

\* the scenario of the claim, with a nature that lowers one stat
C29_Witness ==
    /\ StatsCalled
    /\ call.pre = [level |-> 5, base |-> 45, iv |-> 0, ev |-> 0, natureId |-> "adamant"]
    /\ call.ret.hp = 19
    /\ call.ret.defense = 9
    /\ call.ret.spAttack = 8

----------------------------------------------------------------------------
(* SpecTotals: getTotalExperienceForLevel at a level and at the next one   *)

TotalsCall ==
    /\ call.n = 0
    /\ \E group \in {"fast", "medium_fast", "medium_slow", "slow"},
          level \in (0 - 3)..104 :
        call' = [call EXCEPT
                    !.n = 1,
                    !.fn = "getTotalExperienceForLevel",
                    !.pre = [group |-> group, level |-> level],
                    !.ret = [level |-> getTotalExperienceForLevel(group, level),
                             next  |-> getTotalExperienceForLevel(group, level + 1)]]
    /\ UNCHANGED <<battle, sessionVars, serverVars>>

NextTotals == TotalsCall

SpecTotals == InitSession /\ [][NextTotals]_vars

TotalsCalled == call.n > 0 /\ call.fn = "getTotalExperienceForLevel"

\* the total of level 100 on each curve
TotalAt100(group) ==
    CASE group = "fast"        -> 800000
      [] group = "medium_fast" -> 1000000
      [] group = "medium_slow" -> 1059860
      [] group = "slow"        -> 1250000

\* C30: on each growth curve getTotalExperienceForLevel is non-decreasing in
\* the level over all integer levels, is 0 for every level <= 1 and is the
\* level-100 value for every level > 100.
C30_TotalsMonotone ==
    TotalsCalled =>
        /\ call.ret.level <= call.ret.next
        /\ call.pre.level <= 1 => call.ret.level = 0
        /\ call.pre.level >= 100 => call.ret.level = TotalAt100(call.pre.group)

\* a level above 100 on the curve whose polynomial is negative at level 1
C30_Witness ==
    /\ TotalsCalled
    /\ call.pre = [group |-> "medium_slow", level |-> 103]
    /\ call.ret.level = 1059860
    /\ call.ret.next = 1059860

----------------------------------------------------------------------------
(* SpecDamageRoll: battleManager.calculateDamage with the roll up to 1.0   *)

\* Math.random() * 0.15 + 0.85 in thousandths; the double sum is 1.0 for the
\* draws nearest to 1
CalculateDamageRollCall ==
    /\ call.n = 0
    /\ \E level \in {5, 10, 50}, atk \in {10, 20, 40}, def \in {10, 20, 40},
          type \in {"Normal", "Electric"}, isCritical \in BOOLEAN,
          roll \in {850, 999, 1000} :
        LET attacker == Mon("A", <<type>>, level, 12, 12, "none", atk, 10, 10, <<>>)
            defender == Mon("D", <<"Normal">>, 5, 12, 12, "none", 10, def, 10, <<>>)
        IN  call' = [call EXCEPT
                        !.n = 1,
                        !.fn = "battleManager.calculateDamage",
                        !.pre = [attacker |-> attacker, defender |-> defender,
                                 move |-> Mv("Tackle", 5), isCritical |-> isCritical,
                                 roll |-> roll],
                        !.ret = calculateDamage(attacker, defender, Mv("Tackle", 5),
                                                isCritical, roll)]
    /\ UNCHANGED <<battle, sessionVars, serverVars>>

NextDamageRoll == CalculateDamageRollCall

SpecDamageRoll == InitSession /\ [][NextDamageRoll]_vars

\* level 10, power 40 physical, Attack 20 against Defense 20, no critical hit,
\* no same-type bonus, effectiveness 1, roll 1.0
DamageScenario ==
    /\ call.n > 0 /\ call.fn = "battleManager.calculateDamage"
    /\ call.pre.attacker.level = 10
    /\ call.pre.attacker.calculatedStats.attack = 20
    /\ call.pre.defender.calculatedStats.defense = 20
    /\ call.pre.attacker.types = <<"Electric">>
    /\ ~ call.pre.isCritical
    /\ call.pre.roll = 1000

\* C31: battleManager.calculateDamage, for an attacker of level 10 using a
\* power-40 physical move with Attack 20 against Defense 20, no critical hit,
\* no same-type bonus, type effectiveness 1 and the roll at 1.0, returns
\* damage 6.
C31_ScenarioDamage == DamageScenario => call.ret.damage = 6

C31_Witness == DamageScenario /\ call.ret.damage = 6 /\ ~ call.ret.isCritical

----------------------------------------------------------------------------
(* SpecTypes: getTypeEffectiveness against two types and against each alone *)

\* "Fire" has no row among the English names of the chart, "Shadow" is in no
\* row at all
GetTypeEffectivenessCall ==
    /\ call.n = 0
    /\ \E attackType \in {"Normal", "Electric", "Ground", "Fire", "Shadow"},
          a \in {"Normal", "Electric", "Ground", "Ghost", "Shadow"},
          b \in {"Normal", "Electric", "Ground", "Ghost", "Shadow"} :
        call' = [call EXCEPT
                    !.n = 1,
                    !.fn = "getTypeEffectiveness",
                    !.pre = [attackType |-> attackType, a |-> a, b |-> b],
                    !.ret = [both   |-> getTypeEffectiveness(attackType, <<a, b>>),
                             first  |-> getTypeEffectiveness(attackType, <<a>>),
                             second |-> getTypeEffectiveness(attackType, <<b>>)]]
    /\ UNCHANGED <<battle, sessionVars, serverVars>>

NextTypes == GetTypeEffectivenessCall

SpecTypes == InitSession /\ [][NextTypes]_vars

TypesCalled == call.n > 0 /\ call.fn = "getTypeEffectiveness"

\* C32: getTypeEffectiveness(T, [A, B]) equals getTypeEffectiveness(T, [A])
\* times getTypeEffectiveness(T, [B]) for every attacking type T and defending
\* types A and B, a pairing missing from the chart counting as 1.  The results
\* are in quarters, so the product of two carries a factor 4.
C32_Multiplicative ==
    TypesCalled =>
        /\ 4 * call.ret.both = call.ret.first * call.ret.second
        /\ TypeChart2(call.pre.attackType, call.pre.a) = -1 => call.ret.first = 4
        /\ TypeChart2(call.pre.attackType, call.pre.b) = -1 => call.ret.second = 4

\* a weakness in both defending types gives x4
C32_Witness ==
    /\ TypesCalled
    /\ call.pre = [attackType |-> "Ground", a |-> "Electric", b |-> "Electric"]
    /\ call.ret.both = 16

----------------------------------------------------------------------------
(* Properties of the battle log                                            *)

IsPrefix(s, t) == Len(s) <= Len(t) /\ SubSeq(t, 1, Len(s)) = s

BattleCalls == {"processTurn", "executeAttack", "switchPokemon", "attemptToRun"}

\* C33: for every processTurn, executeAttack, switchPokemon and attemptToRun
\* call the battle log as it was before the call is a prefix of the log in
\* the returned state.
C33_LogAppendOnly ==
    (call.n > 0 /\ call.fn \in BattleCalls) => IsPrefix(call.pre.log, call.ret.log)

\* a second call that appended to a log the first call had already extended
C33_Witness ==
    /\ call.n = 2
    /\ call.fn = "attemptToRun"
    /\ Len(call.pre.log) > 3
    /\ Len(call.ret.log) > Len(call.pre.log)
    /\ IsPrefix(call.pre.log, call.ret.log)

----------------------------------------------------------------------------
(* SpecOutcome: processTurn with a player whose only creature is weak      *)

InitOutcome ==
    /\ \E status \in {"none", "PSN"}, wild \in WildPokemon :
        \E b \in { startBattle(<<MonA(3, status)>>, wild) } :
            /\ battle = b
            /\ call = NoCallYet(b)
    /\ SessionIdle

SpecOutcome == InitOutcome /\ [][Next]_vars

----------------------------------------------------------------------------
(* Properties of the outcome of a battle                                   *)

AllAtZero(party) == \A i \in 1..Len(party) : party[i].currentHp = 0
SomeStanding(party) == \E i \in 1..Len(party) : party[i].currentHp > 0

\* C34: processTurn returns PLAYER_WIN only when every creature in the
\* opponent's party has currentHp 0 and at least one creature in the player's
\* party has currentHp > 0, and OPPONENT_WIN only when every creature in the
\* player's party has currentHp 0 and at least one opponent creature has
\* currentHp > 0.
C34_WinnerStands ==
    (call.n > 0 /\ call.fn = "processTurn") =>
        /\ call.ret.status = "PLAYER_WIN" =>
              /\ AllAtZero(call.ret.participants[2].party)
              /\ SomeStanding(call.ret.participants[1].party)
        /\ call.ret.status = "OPPONENT_WIN" =>
              /\ AllAtZero(call.ret.participants[1].party)
              /\ SomeStanding(call.ret.participants[2].party)

----------------------------------------------------------------------------
(* Properties of the battleSystem calls on a battle that ended             *)

TerminalStatuses == {"PLAYER_WIN", "OPPONENT_WIN", "FLED"}

\* the HP of every creature, the active creatures and the turn counter
Standing(b) ==
    [hp     |-> [i \in 1..2 |-> [j \in 1..Len(b.participants[i].party) |->
                                    b.participants[i].party[j].currentHp]],
     active |-> [i \in 1..2 |-> b.participants[i].activePokemon],
     turn   |-> b.turn]

\* C35: once a battle's status is PLAYER_WIN, OPPONENT_WIN or FLED, no call
\* to executeAttack, switchPokemon, attemptToRun or useItem returns a state
\* whose status is WAITING_FOR_INPUT or in which a creature's HP, an active
\* creature or the turn counter differs from the terminal state.
C35_TerminalIsFinal ==
    (call.n > 0 /\ call.pre.status \in TerminalStatuses
        /\ call.fn \in {"executeAttack", "switchPokemon", "attemptToRun", "useItem"}) =>
        /\ call.ret.status # "WAITING_FOR_INPUT"
        /\ Standing(call.ret) = Standing(call.pre)

----------------------------------------------------------------------------
(* Properties of executeAttack on the parties                              *)

PartyIds(party) == [j \in 1..Len(party) |-> party[j].instanceId]

\* C36: executeAttack changes only the currentHp of the defender's active
\* creature: every other party member of both sides is unchanged, each party
\* holds the same creature identifiers before and after the call, and the
\* defender's active creature is still the party member with its identifier.
C36_OnlyDefenderHp ==
    (call.n > 0 /\ call.fn = "executeAttack") =>
        \A i \in 1..2 :
            LET before == call.pre.participants[i]
                after  == call.ret.participants[i]
            IN  /\ PartyIds(after.party) = PartyIds(before.party)
                /\ after.activePokemon.instanceId = before.activePokemon.instanceId
                /\ \A j \in 1..Len(before.party) :
                       \/ after.party[j] = before.party[j]
                       \/ /\ i = 3 - call.who
                          /\ before.party[j].instanceId = before.activePokemon.instanceId
                          /\ after.party[j] = after.activePokemon
                          /\ [after.party[j] EXCEPT !.currentHp = before.party[j].currentHp]
                                = before.party[j]

----------------------------------------------------------------------------
(* SpecParalysis: processTurn between creatures built by                   *)
(* createPokemonInstance, the player's knowing the paralysis move          *)

InitParalysis ==
    /\ \E iv \in {0, 31}, status \in {"", "BRN", "PSN"} :
        \E b \in { startBattle(
                      <<createPokemonInstance("Y0010", 5, Options("P1", "hardy", iv, "", <<>>))>>,
                      createPokemonInstance("Y0018", 5, Options("W", "hardy", 0, status, <<>>))) } :
            /\ battle = b
            /\ call = NoCallYet(b)
    /\ SessionIdle

SpecParalysis == InitParalysis /\ [][Next]_vars

\* C37: when a creature built by createPokemonInstance that has no status
\* condition is the target of the paralysis move executed in processTurn, and
\* its types are not immune to the move's type, its status condition is PAR
\* in the returned state; a target that already has a status condition keeps
\* that condition.
C37_ParalysisApplied ==
    (call.n > 0 /\ call.fn = "processTurn") =>
        \A k \in {1, 2} :
            LET a == call.order[k]
                t == 3 - call.order[k]
                target == StepBefore(k).participants[t].activePokemon
                after  == StepAfter(k).participants[t].activePokemon
            IN  (/\ ActionOf(a).type = "FIGHT"
                 /\ ActionOf(a).moveId = "ThunderWave"
                 /\ StepLogged(k, "used")
                 /\ getTypeEffectiveness("Electric", target.types) # 0)
                => /\ target.statusCondition \in {"none", "undefined"}
                        => after.statusCondition = "PAR"
                   /\ target.statusCondition \notin {"none", "undefined"}
                        => after.statusCondition = target.statusCondition

----------------------------------------------------------------------------
(* SpecGetMoves: overlapping createPokemonInstance calls on a cold move    *)
(* cache.  req[r] is the position of caller r inside getMoves, the content *)
(* of the Map it was handed and the moves its creature was given.          *)

\* the moves of the data directory, in the order they are read
jsonFiles == <<"Tackle", "ThunderWave", "Thunderbolt">>

AllMoves == { jsonFiles[i] : i \in 1..Len(jsonFiles) }

\* the loop of createPokemonInstance over learnedMoveEntries with the Map
\* getMoves returned: a name the Map does not hold is skipped with a warning
RECURSIVE InitialMovesIn(_, _, _)
InitialMovesIn(entries, allMovesMap, initialMoves) ==
    IF entries = <<>> \/ Len(initialMoves) >= 4 THEN initialMoves
    ELSE IF \E i \in 1..Len(initialMoves) : initialMoves[i].name = Head(entries).name
    THEN InitialMovesIn(Tail(entries), allMovesMap, initialMoves)
    ELSE IF Head(entries).name \in allMovesMap
    THEN InitialMovesIn(Tail(entries), allMovesMap,
                        Append(initialMoves,
                               Mv(Head(entries).name, MoveBasePp(Head(entries).name))))
    ELSE InitialMovesIn(Tail(entries), allMovesMap, initialMoves)

\* the learnset entries of the creature every caller creates (Y0010, level 5)
learnedByCreated == learnedMoveEntries(SpeciesData("Y0010").learned, 5)

\* getMoves returned allMovesMap to caller r: createPokemonInstance runs its
\* loop over the Map as it is at that moment
Returned(r, allMovesMap) ==
    req' = [req EXCEPT ![r] =
              [pc |-> "done", file |-> 0, allMovesMap |-> allMovesMap,
               moves |-> InitialMovesIn(learnedByCreated, allMovesMap, <<>>)]]

InitGetMoves ==
    /\ BattleIdle
    /\ ServerIdle
    /\ gameStates = createNewPlayer
    /\ cachedItems = FALSE
    /\ acked = [i \in {"potion", "pokeball"} |-> 0]
    /\ req = [r \in Requests |-> [pc |-> "idle", file |-> 0,
                                  allMovesMap |-> {}, moves |-> <<>>]]

\* createPokemonInstance reaches await getMoves(): a cache that is set is
\* returned as it is; otherwise cachedMoves becomes a new empty Map and the
\* caller is suspended in the first await of the load
GetMovesCall(r) ==
    /\ req[r].pc = "idle"
    /\ IF cachedMoves # <<>>
       THEN /\ Returned(r, cachedMoves[1])
            /\ UNCHANGED cachedMoves
       ELSE /\ cachedMoves' = <<{}>>
            /\ req' = [req EXCEPT ![r].pc = "move_list"]
    /\ UNCHANGED <<battleVars, gameStates, cachedItems, acked, activeSessions, now>>

\* move_list.json was read and holds an array: the loop sets every move and
\* getMoves returns the Map
MoveListLoaded(r) ==
    /\ req[r].pc = "move_list"
    /\ cachedMoves' = <<cachedMoves[1] \cup AllMoves>>
    /\ Returned(r, cachedMoves'[1])
    /\ UNCHANGED <<battleVars, gameStates, cachedItems, acked, activeSessions, now>>

\* move_list.json is missing or unreadable: the caller falls back to the
\* move directory and is suspended in readdir
MoveListMissing(r) ==
    /\ req[r].pc = "move_list"
    /\ req' = [req EXCEPT ![r].pc = "directory"]
    /\ UNCHANGED <<battleVars, gameStates, cachedItems, acked, serverVars>>

\* the next file of the move directory was read and its move set
MoveFileLoaded(r) ==
    /\ req[r].pc = "directory"
    /\ req[r].file < Len(jsonFiles)
    /\ cachedMoves' = <<cachedMoves[1] \cup {jsonFiles[req[r].file + 1]}>>
    /\ req' = [req EXCEPT ![r].file = @ + 1]
    /\ UNCHANGED <<battleVars, gameStates, cachedItems, acked, activeSessions, now>>

\* every file was read: getMoves returns the Map
MoveDirectoryLoaded(r) ==
    /\ req[r].pc = "directory"
    /\ req[r].file = Len(jsonFiles)
    /\ Returned(r, cachedMoves[1])
    /\ UNCHANGED <<battleVars, gameStates, cachedItems, acked, serverVars>>

\* readdir failed: the cache is reset to null and getMoves throws
MoveDirectoryFailed(r) ==
    /\ req[r].pc = "directory"
    /\ req[r].file = 0
    /\ cachedMoves' = <<>>
    /\ req' = [req EXCEPT ![r].pc = "failed"]
    /\ UNCHANGED <<battleVars, gameStates, cachedItems, acked, activeSessions, now>>

NextGetMoves ==
    \E r \in Requests :
        \/ GetMovesCall(r)
        \/ MoveListLoaded(r)
        \/ MoveListMissing(r)
        \/ MoveFileLoaded(r)
        \/ MoveDirectoryLoaded(r)
        \/ MoveDirectoryFailed(r)

SpecGetMoves == InitGetMoves /\ [][NextGetMoves]_vars

\* C39: when callers invoke getMoves concurrently before the move cache has
\* been filled, every caller receives the completely loaded move map; no
\* caller observes an empty or partially filled map, so no creature is
\* created with moves missing.
C39_CompleteMoveMap ==
    \A r \in Requests :
        req[r].pc = "done" =>
            /\ req[r].allMovesMap = AllMoves
            /\ req[r].moves = InitialMoves(learnedByCreated, <<>>)

----------------------------------------------------------------------------
(* sessionManager: the session store, keyed by session id.  null is <<>>,  *)
(* a returned object x is <<x>>; lastActivity and the clock are in         *)
(* milliseconds.                                                           *)

SESSION_TIMEOUT == 30 * 60 * 1000

\* delete activeSessions[sessionId]
endSession(sessions, sessionId) ==
    [id \in DOMAIN sessions \ {sessionId} |-> sessions[id]]

\* getSession without the update of lastActivity
getSession_NoRefresh(sessions, sessionId, t) ==
    IF sessionId \notin DOMAIN sessions
    THEN [activeSessions |-> sessions, ret |-> <<>>]
    ELSE IF t - sessions[sessionId].lastActivity > SESSION_TIMEOUT
    THEN [activeSessions |-> endSession(sessions, sessionId), ret |-> <<>>]
    ELSE [activeSessions |-> sessions, ret |-> <<sessions[sessionId]>>]

\* getSession(sessionId) at time t: the store afterwards and the value
\* returned; the returned object is the stored one, with the new lastActivity
getSession(sessions, sessionId, t) ==
    IF sessionId \notin DOMAIN sessions
    THEN [activeSessions |-> sessions, ret |-> <<>>]
    ELSE IF t - sessions[sessionId].lastActivity > SESSION_TIMEOUT
    THEN [activeSessions |-> endSession(sessions, sessionId), ret |-> <<>>]
    ELSE LET updated == [sessions EXCEPT ![sessionId].lastActivity = t]
         IN  [activeSessions |-> updated, ret |-> <<updated[sessionId]>>]

\* cleanupExpiredSessions at time t
cleanupExpiredSessions(sessions, t) ==
    [id \in { e \in DOMAIN sessions : ~ (t - sessions[e].lastActivity > SESSION_TIMEOUT) }
        |-> sessions[id]]

----------------------------------------------------------------------------
(* SpecSessions: calls on the session store while the clock advances       *)

\* the session ids a caller may present
SessionIds == 1..MaxRequests

\* what a call on the session store leaves in the record of the last call;
\* expired collects the ids getSession has found expired
SessionCall(fn, sessionId, sessions, result) ==
    /\ call' = [n |-> call.n + 1, fn |-> fn, who |-> sessionId,
                pre |-> [activeSessions |-> activeSessions, now |-> now],
                ret |-> result,
                expired |-> call.expired \cup
                    (IF /\ fn \in {"getSession", "getPlayerStateForSession"}
                        /\ sessionId \in DOMAIN activeSessions
                        /\ sessionId \notin DOMAIN sessions
                     THEN {sessionId} ELSE {})]
    /\ activeSessions' = sessions
    /\ UNCHANGED <<battle, sessionVars, cachedMoves, now>>

InitSessions ==
    /\ SessionIdle
    /\ battle = startBattle(<<MonA(12, "none")>>, MonW(12, "none", 5))
    /\ call = [n |-> 0, fn |-> "", who |-> 0,
               pre |-> [activeSessions |-> activeSessions, now |-> now],
               ret |-> <<>>, expired |-> {}]

\* time passes: one millisecond, or the length of the timeout; the clock is
\* followed over two timeouts, at the whole timeouts and a millisecond later
Tick ==
    /\ \E d \in {1, SESSION_TIMEOUT} :
          /\ now + d <= 2 * SESSION_TIMEOUT + 1
          /\ (now + d) % SESSION_TIMEOUT <= 1
          /\ now' = now + d
    /\ UNCHANGED <<battleVars, sessionVars, cachedMoves, activeSessions>>

\* createSession: uuidv4() gives an id no session had before
CreateSessionCall ==
    /\ call.n < MaxRequests
    /\ LET sessionId == call.n + 1
           session == [sessionId |-> sessionId, playerId |-> sessionId,
                       lastActivity |-> now]
       IN  SessionCall("createSession", sessionId,
                       [id \in DOMAIN activeSessions \cup {sessionId} |->
                            IF id = sessionId THEN session ELSE activeSessions[id]],
                       <<session>>)

GetSessionCall ==
    /\ call.n < MaxRequests
    /\ \E sessionId \in SessionIds :
          LET r == getSession(activeSessions, sessionId, now)
          IN  SessionCall("getSession", sessionId, r.activeSessions, r.ret)

\* getPlayerStateForSession: getSession, then the stored Player of the session
GetPlayerStateForSessionCall ==
    /\ call.n < MaxRequests
    /\ \E sessionId \in SessionIds :
          LET r == getSession(activeSessions, sessionId, now)
          IN  SessionCall("getPlayerStateForSession", sessionId, r.activeSessions,
                          IF r.ret = <<>> THEN <<>> ELSE <<gameStates>>)

UpdateSessionActivityCall ==
    /\ call.n < MaxRequests
    /\ \E sessionId \in SessionIds :
          IF sessionId \in DOMAIN activeSessions
          THEN SessionCall("updateSessionActivity", sessionId,
                           [activeSessions EXCEPT ![sessionId].lastActivity = now],
                           <<TRUE>>)
          ELSE SessionCall("updateSessionActivity", sessionId, activeSessions, <<FALSE>>)

EndSessionCall ==
    /\ call.n < MaxRequests
    /\ \E sessionId \in SessionIds :
          SessionCall("endSession", sessionId, endSession(activeSessions, sessionId),
                      <<sessionId \in DOMAIN activeSessions>>)

CleanupExpiredSessionsCall ==
    /\ call.n < MaxRequests
    /\ LET sessions == cleanupExpiredSessions(activeSessions, now)
       IN  SessionCall("cleanupExpiredSessions", 0, sessions,
                       <<Cardinality(DOMAIN activeSessions \ DOMAIN sessions)>>)

NextSessions ==
    \/ Tick
    \/ CreateSessionCall
    \/ GetSessionCall
    \/ GetPlayerStateForSessionCall
    \/ UpdateSessionActivityCall
    \/ EndSessionCall
    \/ CleanupExpiredSessionsCall

SpecSessions == InitSessions /\ [][NextSessions]_vars

\* the last call was getSession or getPlayerStateForSession
SessionLookup == call.n > 0 /\ call.fn \in {"getSession", "getPlayerStateForSession"}

\* the session the last call named was stored and idle for more than 30 minutes
IdleTooLong ==
    /\ call.who \in DOMAIN call.pre.activeSessions
    /\ call.pre.now - call.pre.activeSessions[call.who].lastActivity > 30 * 60 * 1000

\* C40: getSession never returns a session whose last activity is more than
\* 30 minutes in the past: such a session is deleted on that access, every
\* later getSession or getPlayerStateForSession for that session id returns
\* null, and each successful getSession resets the session's idle timer to
\* the current time.
C40_ExpiredSessionsAreGone ==
    /\ \A id \in call.expired : id \notin DOMAIN activeSessions
    /\ SessionLookup =>
          /\ IdleTooLong =>
                /\ call.ret = <<>>
                /\ call.who \notin DOMAIN activeSessions
                /\ call.who \in call.expired
          /\ (call.who \in call.expired) => call.ret = <<>>
          /\ (call.ret # <<>>) =>
                /\ call.who \in DOMAIN call.pre.activeSessions
                /\ activeSessions[call.who].lastActivity = call.pre.now
                /\ call.fn = "getSession" =>
                      /\ call.ret[1].sessionId = call.who
                      /\ call.ret[1].lastActivity = call.pre.now

\* a session expired on an earlier access is asked for again and is null
C40_Witness ==
    /\ SessionLookup
    /\ call.who \in call.expired
    /\ call.who \notin DOMAIN call.pre.activeSessions
    /\ call.ret = <<>>

----------------------------------------------------------------------------
(* Properties of attemptCapture                                            *)

Captured == call.n > 0 /\ call.fn = "attemptCapture" /\ call.ret.success

Listed(list, x) == \E i \in 1..Len(list) : list[i] = x

\* C26: on every successful attemptCapture the captured creature is added to
\* exactly one place, the team when the team had fewer than 6 members before
\* the attempt and the PC box otherwise, the team has at most 6 members
\* afterwards, and the captured species is in both the seen list and the
\* caught list of the pokedex.
C26_CaptureStored ==
    Captured =>
        LET before == call.pre.playerState
            wild   == call.pre.battle.participants[2].activePokemon
        IN  /\ Len(before.team) < 6 =>
                 /\ gameStates.team = Append(before.team, wild)
                 /\ gameStates.pcBox = before.pcBox
            /\ Len(before.team) >= 6 =>
                 /\ gameStates.team = before.team
                 /\ gameStates.pcBox = Append(before.pcBox, wild)
            /\ Len(gameStates.team) <= 6
            /\ Listed(gameStates.pokedex.seen, wild.pokedexId)
            /\ Listed(gameStates.pokedex.caught, wild.pokedexId)

\* a capture by a player whose team is full, of a species not caught before
C26_Witness ==
    /\ Captured
    /\ Len(call.pre.playerState.team) = 6
    /\ Len(gameStates.pcBox) = Len(call.pre.playerState.pcBox) + 1
    /\ ~ Listed(call.pre.playerState.pokedex.caught,
                call.pre.battle.participants[2].activePokemon.pokedexId)

----------------------------------------------------------------------------
(* Properties of the session layer                                         *)

AllDone == \A r \in Requests : req[r].pc = "done"

\* C7: when command requests of one player overlap, no request's update to
\* the player state is lost or overwritten by another: once every request has
\* been answered, the stored inventory shows every acknowledged drop.
C7_NoLostUpdate ==
    AllDone => \A i \in {"potion", "pokeball"} :
                  Quantity(gameStates.inventory, i)
                     = Quantity(createNewPlayer.inventory, i) - acked[i]

====
